---------------------------- MODULE Spec2Model ----------------------------
\* The device-control protocol stack of the AM radio controller:
\*   gui/model.py       NetworkManager (connection supervisor, poller,
\*                      transport) and Model (reconciler, watchdog monitor,
\*                      command dispatcher)
\*   gui/event_bus.py   EventBus
\*   controller.py      the UI callbacks that call the dispatcher
\*   am_scpi_server.py  the device-side SCPI server
\*
\* Text on the wire is a sequence of tokens: a key, a value, "=", "," or ";"
\* is one token each, so that str.split and the "=" test are computed on the
\* reply as the code computes them on the characters.

EXTENDS Integers, Sequences, FiniteSets, TLC

\* ------------------------------------------------------------------------
\* Program constants (gui/config.py)
\* ------------------------------------------------------------------------
HEARTBEAT_TIMEOUT == 3
MAX_RECONNECT_ATTEMPTS == 5
AUTO_RECONNECT == TRUE
FREQ_MIN == 530000
FREQ_MAX == 1700000

\* ------------------------------------------------------------------------
\* Bounds of the model
\* ------------------------------------------------------------------------
\* channels of the device (Config.NUM_CHANNELS is 12)
NumChannels == 1
\* key=value entries in a STATUS? reply
MaxParts == 2
\* entries of Model.pending_state between two reconciliations
MaxPending == 1
\* successful dials in one behaviour
MaxSessions == 2
\* Model.connect calls in one behaviour
MaxConnects == 1

ChannelIds == 1..NumChannels

\* Config.CHANNELS[i]["default_freq"]
DefaultFreq(ch) == 540000 + (ch - 1) * 100000

\* ------------------------------------------------------------------------
\* Generic helpers
\* ------------------------------------------------------------------------
Range(s) == {s[i] : i \in DOMAIN s}

\* str.split(sep) on a token sequence: the list of parts between separators
RECURSIVE SplitOn(_, _)
SplitOn(s, sep) ==
    IF \A i \in DOMAIN s : s[i] # sep
    THEN <<s>>
    ELSE LET i == CHOOSE j \in DOMAIN s :
                      s[j] = sep /\ \A k \in 1..(j - 1) : s[k] # sep
         IN  <<SubSeq(s, 1, i - 1)>> \o SplitOn(SubSeq(s, i + 1, Len(s)), sep)

\* key, value = part.split("=", 1)
KeyOf(part) ==
    LET i == CHOOSE j \in DOMAIN part :
                 part[j] = "=" /\ \A k \in 1..(j - 1) : part[k] # "="
    IN  SubSeq(part, 1, i - 1)

ValueOf(part) ==
    LET i == CHOOSE j \in DOMAIN part :
                 part[j] = "=" /\ \A k \in 1..(j - 1) : part[k] # "="
    IN  SubSeq(part, i + 1, Len(part))

\* data[key] = value
PutData(data, key, value) ==
    [k \in DOMAIN data \cup {key} |-> IF k = key THEN value ELSE data[k]]

\* data[key] = value for each part containing "=", later parts overriding
RECURSIVE ParseParts(_, _)
ParseParts(parts, data) ==
    IF parts = <<>> THEN data
    ELSE ParseParts(Tail(parts),
                    IF "=" \in Range(Head(parts))
                    THEN PutData(data, KeyOf(Head(parts)), ValueOf(Head(parts)))
                    ELSE data)

EmptyData == [k \in {} |-> <<>>]

\* the dict built by _parse_and_publish_status
ParseStatus(status) == ParseParts(SplitOn(status, ","), EmptyData)

\* key in data, data[key]
Has(data, key) == <<key>> \in DOMAIN data
Get(data, key) == data[<<key>>]

\* data.get(key) == "1"
IsOne(data, key) == Has(data, key) /\ Get(data, key) = <<"1">>

\* value in ["1", "true", "True", True]
Truthy(v) == v \in {<<"1">>, <<"true">>, <<"True">>}

\* int(value): decimal tokens known to the model; anything else raises ValueError
IntTokens == {"0", "1", "3", "5", "540000", "640000", "700000", "900000"}

IntValue(tok) ==
    CASE tok = "0" -> 0
      [] tok = "1" -> 1
      [] tok = "3" -> 3
      [] tok = "5" -> 5
      [] tok = "540000" -> 540000
      [] tok = "640000" -> 640000
      [] tok = "700000" -> 700000
      [] tok = "900000" -> 900000

IsInt(v) == Len(v) = 1 /\ v[1] \in IntTokens
ToInt(v) == IntValue(v[1])

\* f"ch{ch.id}_enabled", f"ch{ch.id}_freq"
KeyEnabled(ch) ==
    CASE ch = 1 -> "ch1_enabled"
      [] ch = 2 -> "ch2_enabled"
      [] ch = 3 -> "ch3_enabled"
      [] ch = 4 -> "ch4_enabled"
      [] OTHER -> "ch13_enabled"

KeyFreq(ch) ==
    CASE ch = 1 -> "ch1_freq"
      [] ch = 2 -> "ch2_freq"
      [] ch = 3 -> "ch3_freq"
      [] ch = 4 -> "ch4_freq"
      [] OTHER -> "ch13_freq"

\* ------------------------------------------------------------------------
\* Events (gui/event_bus.py)
\* ------------------------------------------------------------------------
Ev(type) == [type |-> type, attempt |-> 0, reason |-> ""]
EvAttempt(n) == [type |-> "RECONNECT_ATTEMPT", attempt |-> n, reason |-> ""]
EvReason(type, r) == [type |-> type, attempt |-> 0, reason |-> r]

\* the types of the events of a log, and how many have a given type / reason
EventTypes(evs) == {evs[i].type : i \in DOMAIN evs}
CountType(evs, type) == Cardinality({i \in DOMAIN evs : evs[i].type = type})
CountReason(evs, r) == Cardinality({i \in DOMAIN evs : evs[i].reason = r})

\* ------------------------------------------------------------------------
\* Wire commands (Config.SCPI)
\* ------------------------------------------------------------------------
Cmd(name) == [name |-> name, ch |-> 0, num |-> 0, str |-> ""]
WATCHDOG_RESET == Cmd("WATCHDOG:RESET")
QUERY_STATUS == Cmd("STATUS?")
QUERY_ID == Cmd("*IDN?")
SET_BROADCAST(s) == [name |-> "OUTPUT:STATE", ch |-> 0, num |-> 0, str |-> s]
SET_SOURCE(s) == [name |-> "SOURCE:INPUT", ch |-> 0, num |-> 0, str |-> s]
SET_MESSAGE(id) == [name |-> "SOURCE:MSG", ch |-> 0, num |-> id, str |-> ""]
SET_FREQ(ch, hz) == [name |-> "FREQ:CH", ch |-> ch, num |-> hz, str |-> ""]
SET_OUTPUT(ch, s) == [name |-> "CH:OUTPUT", ch |-> ch, num |-> 0, str |-> s]
AUDIO_STATUS == Cmd("AUDIO:STATUS?")
AUDIO_LOAD(path) == [name |-> "AUDIO:LOAD", ch |-> 0, num |-> 0, str |-> path]
WATCHDOG_ENABLE(s) == [name |-> "WATCHDOG:ENABLE", ch |-> 0, num |-> 0, str |-> s]

\* ------------------------------------------------------------------------
\* Model objects after construction
\* ------------------------------------------------------------------------
\* ChannelState(id, frequency=default_freq)
ChannelState(ch) == [frequency |-> DefaultFreq(ch), enabled |-> FALSE,
                     confirmed |-> FALSE]

\* DeviceState()
DeviceState == [connected |-> FALSE, broadcasting |-> FALSE, source |-> <<>>,
                channels |-> [ch \in ChannelIds |-> ChannelState(ch)],
                stale |-> TRUE,
                watchdog_enabled |-> TRUE, watchdog_triggered |-> FALSE,
                watchdog_warning |-> FALSE, watchdog_time_remaining |-> 5]

NoPending == [k \in {} |-> 0]

\* Model.__init__
ModelInit == [connection_state |-> "DISCONNECTED",
              broadcast_state |-> "IDLE",
              watchdog_state |-> "OK",
              device_state |-> DeviceState,
              pending_state |-> NoPending]

\* NetworkManager.__init__
\* socket: "None", "dialing" (created, not yet connected) or "connected"
\* heartbeat_age: -1 while _last_heartbeat is None, else the seconds since
\* _last_heartbeat (ages beyond HEARTBEAT_TIMEOUT + 1 are not distinguished)
NetworkInit == [connection_state |-> "DISCONNECTED",
                socket |-> "None",
                running |-> FALSE,
                auto_reconnect |-> AUTO_RECONNECT,
                reconnect_count |-> 0,
                heartbeat_age |-> -1]

\* ------------------------------------------------------------------------
\* The "world" the handlers act on: the Model object, the NetworkManager
\* object, the commands written to the socket and the events published by
\* the operation in progress.
\*   w = [model, network, sent, published]
\* ------------------------------------------------------------------------

\* Model._on_connect_success
OnConnectSuccess(m) ==
    [m EXCEPT !.connection_state = "CONNECTED",
              !.device_state.connected = TRUE,
              !.device_state.stale = TRUE]

\* Model._on_connect_failed
OnConnectFailed(m) ==
    [m EXCEPT !.connection_state = "ERROR",
              !.device_state.connected = FALSE]

\* Model._on_disconnected
OnDisconnected(m) ==
    [m EXCEPT !.connection_state = "DISCONNECTED",
              !.device_state.connected = FALSE,
              !.device_state.stale = TRUE,
              !.broadcast_state = "IDLE"]

\* Model._on_reconnect_attempt
OnReconnectAttempt(m) == [m EXCEPT !.connection_state = "RECONNECTING"]

\* Model._on_heartbeat_lost
OnHeartbeatLost(m) == [m EXCEPT !.device_state.stale = TRUE]

\* Model._on_watchdog_triggered
OnWatchdogTriggered(m) ==
    [m EXCEPT !.watchdog_state = "TRIGGERED",
              !.device_state.watchdog_triggered = TRUE,
              !.broadcast_state = "IDLE"]

\* Model._on_watchdog_warning
OnWatchdogWarning(m) ==
    [m EXCEPT !.watchdog_state = "WARNING",
              !.device_state.watchdog_warning = TRUE]

\* the event is appended to the bus log
Log(w, ev) == [w EXCEPT !.published = Append(@, ev)]

\* EventBus.publish for the subscribers registered in Model.__init__
\* (DEVICE_STATE_UPDATED, which carries the parsed reply, is PublishStatus)
Publish(w, ev) ==
    CASE ev.type = "CONNECT_SUCCESS" ->
            [Log(w, ev) EXCEPT !.model = OnConnectSuccess(@)]
      [] ev.type = "CONNECT_FAILED" ->
            [Log(w, ev) EXCEPT !.model = OnConnectFailed(@)]
      [] ev.type = "DISCONNECTED" ->
            [Log(w, ev) EXCEPT !.model = OnDisconnected(@)]
      [] ev.type = "RECONNECT_ATTEMPT" ->
            [Log(w, ev) EXCEPT !.model = OnReconnectAttempt(@)]
      [] ev.type = "DEVICE_HEARTBEAT_LOST" ->
            [Log(w, ev) EXCEPT !.model = OnHeartbeatLost(@)]
      [] ev.type = "WATCHDOG_TRIGGERED" ->
            [Log(w, ev) EXCEPT !.model = OnWatchdogTriggered(@)]
      [] ev.type = "WATCHDOG_WARNING" ->
            [Log(w, ev) EXCEPT !.model = OnWatchdogWarning(@)]
      [] OTHER -> Log(w, ev)

\* Model._on_device_state_updated, lines 469-479: watchdog_triggered
UpdateTriggered(m, data) ==
    IF ~Has(data, "watchdog_triggered") THEN m
    ELSE IF Truthy(Get(data, "watchdog_triggered"))
    THEN [m EXCEPT !.device_state.watchdog_triggered = TRUE,
                   !.watchdog_state = "TRIGGERED"]
    ELSE IF Has(data, "watchdog_warning")
               /\ Truthy(Get(data, "watchdog_warning"))
    THEN [m EXCEPT !.device_state.watchdog_triggered = FALSE,
                   !.watchdog_state = "WARNING",
                   !.device_state.watchdog_warning = TRUE]
    ELSE [m EXCEPT !.device_state.watchdog_triggered = FALSE,
                   !.watchdog_state = "OK",
                   !.device_state.watchdog_warning = FALSE]

\* lines 481-485: watchdog_time
UpdateWatchdogTime(m, data) ==
    IF Has(data, "watchdog_time") /\ IsInt(Get(data, "watchdog_time"))
    THEN [m EXCEPT !.device_state.watchdog_time_remaining =
                       ToInt(Get(data, "watchdog_time"))]
    ELSE m

\* lines 487-488: watchdog_enabled
UpdateWatchdogEnabled(m, data) ==
    IF Has(data, "watchdog_enabled")
    THEN [m EXCEPT !.device_state.watchdog_enabled =
                       Truthy(Get(data, "watchdog_enabled"))]
    ELSE m

\* lines 469-488: the watchdog fields
UpdateWatchdog(m, data) ==
    UpdateWatchdogEnabled(
        UpdateWatchdogTime(UpdateTriggered(m, data), data), data)

\* lines 491-502: broadcasting, with the edge detection
UpdateBroadcast(w, data) ==
    IF ~Has(data, "broadcasting") THEN w
    ELSE IF Truthy(Get(data, "broadcasting"))
    THEN IF w.model.device_state.broadcasting THEN w
         ELSE Log([w EXCEPT !.model.device_state.broadcasting = TRUE,
                            !.model.broadcast_state = "BROADCASTING"],
                  Ev("BROADCAST_STARTED"))
    ELSE IF w.model.device_state.broadcasting
         THEN Log([w EXCEPT !.model.device_state.broadcasting = FALSE,
                            !.model.broadcast_state = "IDLE"],
                  Ev("BROADCAST_STOPPED"))
         ELSE w

\* lines 509-511: chN_enabled
UpdateEnabled(c, ch, data) ==
    IF Has(data, KeyEnabled(ch))
    THEN [c EXCEPT !.enabled = Truthy(Get(data, KeyEnabled(ch))),
                   !.confirmed = TRUE]
    ELSE c

\* lines 513-518: chN_freq
UpdateFrequency(c, ch, data) ==
    IF Has(data, KeyFreq(ch)) /\ IsInt(Get(data, KeyFreq(ch)))
    THEN [c EXCEPT !.frequency = ToInt(Get(data, KeyFreq(ch))),
                   !.confirmed = TRUE]
    ELSE c

\* lines 504-518: one channel
UpdateChannel(c, ch, data) ==
    UpdateFrequency(UpdateEnabled(c, ch, data), ch, data)

\* lines 520-528: source, stale, pending_state.clear()
UpdateRest(m, data) ==
    [m EXCEPT !.device_state.channels =
                  [ch \in ChannelIds |-> UpdateChannel(@[ch], ch, data)],
              !.device_state.source =
                  IF Has(data, "source") THEN Get(data, "source") ELSE @,
              !.device_state.stale = FALSE,
              !.pending_state = NoPending]

\* Model._on_device_state_updated
OnDeviceStateUpdated(w, data) ==
    [UpdateBroadcast([w EXCEPT !.model = UpdateWatchdog(@, data)], data)
        EXCEPT !.model = UpdateRest(@, data)]

\* EventBus.publish(Event(DEVICE_STATE_UPDATED, data))
PublishStatus(w, data) ==
    OnDeviceStateUpdated(Log(w, Ev("DEVICE_STATE_UPDATED")), data)

\* _parse_and_publish_status, lines 318-326
PublishParsed(w, data) ==
    PublishStatus(
        IF IsOne(data, "watchdog_triggered")
        THEN Publish(w, Ev("WATCHDOG_TRIGGERED"))
        ELSE IF IsOne(data, "watchdog_warning")
        THEN Publish(w, Ev("WATCHDOG_WARNING"))
        ELSE w,
        data)

\* NetworkManager._parse_and_publish_status
ParseAndPublishStatus(w, status) == PublishParsed(w, ParseStatus(status))

\* ------------------------------------------------------------------------
\* Transport: NetworkManager.send_command
\* ------------------------------------------------------------------------
\* outcomes of socket.sendall / socket.recv
IoOutcomes == {"ok", "timeout", "error"}

\* line 348: the command is attempted only when CONNECTED with a socket
SendGuard(n) == n.connection_state = "CONNECTED" /\ n.socket # "None"

\* lines 353-354 and the except clauses 367-374: the write of one command
Sendall(w, cmd, io) ==
    CASE io = "ok" /\ w.network.socket = "connected" ->
            [w EXCEPT !.sent = Append(@, cmd)]
      [] io = "timeout" /\ w.network.socket = "connected" ->
            Publish(w, Ev("COMMAND_TIMEOUT"))
      [] OTHER -> Publish(w, Ev("COMMAND_FAILED"))

\* send_command for a command without "?": no reply is read
SendCommand(w, cmd, io) ==
    IF ~SendGuard(w.network) THEN w ELSE Sendall(w, cmd, io)

\* send_command for a query: was the query written
QueryWritten(w, io) ==
    SendGuard(w.network) /\ io = "ok" /\ w.network.socket = "connected"

\* what send_command returns for a query (None and "" are both falsy and
\* modelled as the empty text)
QueryResponse(w, io, rcv) ==
    IF QueryWritten(w, io) /\ rcv.kind = "reply" THEN rcv.text ELSE <<>>

\* socket.recv with an except clause for socket.timeout that only logs
Recv_timeout_unpublished(w, rcv) ==
    CASE rcv.kind = "error" -> Publish(w, Ev("COMMAND_FAILED"))
      [] OTHER -> w

\* line 363 and the except clauses: socket.recv after the query was written
Recv(w, rcv) ==
    CASE rcv.kind = "timeout" -> Publish(w, Ev("COMMAND_TIMEOUT"))
      [] rcv.kind = "error" -> Publish(w, Ev("COMMAND_FAILED"))
      [] OTHER -> w

\* send_command for a query: its effects
QueryWorld(w, cmd, io, rcv) ==
    IF ~SendGuard(w.network) THEN w
    ELSE IF ~QueryWritten(w, io) THEN Sendall(w, cmd, io)
    ELSE Recv(Sendall(w, cmd, "ok"), rcv)

\* ------------------------------------------------------------------------
\* Poller: NetworkManager._poll_loop
\* ------------------------------------------------------------------------
\* lines 242-243: if status: self._parse_and_publish_status(status)
Reconcile(w, status) ==
    IF status # <<>> THEN ParseAndPublishStatus(w, status) ELSE w

\* lines 241-243, after the watchdog reset was attempted
PollStatus(w, io, rcv) ==
    Reconcile(QueryWorld(w, QUERY_STATUS, io, rcv), QueryResponse(w, io, rcv))

\* one iteration of _poll_loop (lines 235-245)
PollIteration(w, io1, io2, rcv) ==
    PollStatus(SendCommand(w, WATCHDOG_RESET, io1), io2, rcv)

\* ------------------------------------------------------------------------
\* Command dispatcher: Model.set_* / reset_watchdog
\* ------------------------------------------------------------------------
\* self.pending_state[key] = val
PutPending(w, key, val) ==
    [w EXCEPT !.model.pending_state =
        [k \in DOMAIN @ \cup {key} |-> IF k = key THEN val ELSE @[k]]]

OnOff(b) == IF b THEN "ON" ELSE "OFF"

\* Model.set_source
set_source(w, source, io) ==
    IF source \notin {"ADC", "BRAM"} THEN w
    ELSE Publish(SendCommand(PutPending(w, "source", source),
                             SET_SOURCE(source), io),
                 Ev("SOURCE_CHANGED"))

\* Model.set_message
set_message(w, message_id, io) ==
    Publish(SendCommand(PutPending(w, "message", message_id),
                        SET_MESSAGE(message_id), io),
            Ev("MESSAGE_CHANGED"))

\* Model.set_channel_frequency
set_channel_frequency(w, channel_id, frequency, io) ==
    Publish(SendCommand(PutPending(w, KeyFreq(channel_id), frequency),
                        SET_FREQ(channel_id, frequency), io),
            Ev("CHANNEL_FREQ_CHANGED"))

\* Model.set_channel_enabled
set_channel_enabled(w, channel_id, enabled, io) ==
    Publish(SendCommand(PutPending(w, KeyEnabled(channel_id), enabled),
                        SET_OUTPUT(channel_id, OnOff(enabled)), io),
            Ev(IF enabled THEN "CHANNEL_ENABLED" ELSE "CHANNEL_DISABLED"))

\* set_broadcast lines 596-609: the request is accepted
RequestBroadcast(w, active, io) ==
    SendCommand(IF active
                THEN Publish([w EXCEPT !.model.broadcast_state = "ARMING"],
                             Ev("BROADCAST_ARMING"))
                ELSE [w EXCEPT !.model.broadcast_state = "STOPPING"],
                SET_BROADCAST(OnOff(active)), io)

\* set_broadcast without the watchdog check of lines 591-594
set_broadcast_unguarded(w, active, io) == RequestBroadcast(w, active, io)

\* set_broadcast taking the request for its effect
set_broadcast_optimistic(w, active, io) ==
    IF active /\ w.model.device_state.watchdog_triggered
    THEN Publish(w, Ev("ERROR_OCCURRED"))
    ELSE SendCommand(
             IF active
             THEN Publish([w EXCEPT !.model.broadcast_state = "BROADCASTING",
                                    !.model.device_state.broadcasting = TRUE],
                          Ev("BROADCAST_ARMING"))
             ELSE [w EXCEPT !.model.broadcast_state = "STOPPING"],
             SET_BROADCAST(OnOff(active)), io)

\* Model.set_broadcast
set_broadcast(w, active, io) ==
    IF active /\ w.model.device_state.watchdog_triggered
    THEN Publish(w, Ev("ERROR_OCCURRED"))
    ELSE RequestBroadcast(w, active, io)

\* reset_watchdog lines 613-616: the optimistic clear
ClearWatchdog(w) ==
    [w EXCEPT !.model.watchdog_state = "OK",
              !.model.device_state.watchdog_triggered = FALSE,
              !.model.device_state.watchdog_warning = FALSE]

\* Model.reset_watchdog
reset_watchdog(w, io) ==
    Publish(ClearWatchdog(SendCommand(w, WATCHDOG_RESET, io)),
            Ev("WATCHDOG_RESET"))

\* Model.set_watchdog_enabled
set_watchdog_enabled(w, enabled, io) ==
    SendCommand(w, WATCHDOG_ENABLE(OnOff(enabled)), io)

\* ------------------------------------------------------------------------
\* UI callbacks (controller.py); idx is Controller.selected_channel_idx + 1
\* ------------------------------------------------------------------------
\* Controller._on_channel_enable
_on_channel_enable(w, idx, app_data, io) ==
    [set_channel_enabled(w, idx, app_data, io)
        EXCEPT !.model.device_state.channels[idx].enabled = app_data]

\* Controller._on_freq_slider_change / _on_freq_input_change
_on_freq_change(w, idx, freq_hz, io) ==
    [set_channel_frequency(w, idx, freq_hz, io)
        EXCEPT !.model.device_state.channels[idx].frequency = freq_hz]

\* Controller._on_enable_n_channels / _on_disable_all_channels (n = 0):
\* the loop over Config.CHANNELS from channel i on
RECURSIVE EnableFrom(_, _, _, _)
EnableFrom(w, i, n, io) ==
    IF i > NumChannels THEN w
    ELSE EnableFrom(_on_channel_enable(w, i, (i - 1) < n, io), i + 1, n, io)

_on_enable_n_channels(w, n, io) == EnableFrom(w, 1, n, io)

\* Controller._on_broadcast_click
_on_broadcast_click(w, io) ==
    set_broadcast(w, w.model.broadcast_state # "BROADCASTING", io)

\* ------------------------------------------------------------------------
\* Connection supervisor: NetworkManager.connect / _connect_async /
\* _handle_connection_failure / _check_heartbeat_timeout / disconnect
\* ------------------------------------------------------------------------
\* NetworkManager.connect up to thread.start()
NetConnect(w) ==
    Publish([w EXCEPT !.network.connection_state = "CONNECTING",
                      !.network.auto_reconnect = AUTO_RECONNECT],
            Ev("CONNECT_REQUESTED"))

\* Model.connect
ModelConnect(w) ==
    NetConnect([w EXCEPT !.model.connection_state = "CONNECTING"])

\* _connect_async lines 187-189: a fresh socket object, then the blocking dial
DialBegin(w) == [w EXCEPT !.network.socket = "dialing"]

\* _connect_async without the reset of the retry counter (line 192)
DialSucceeded_keep_count(w) ==
    [Publish([w EXCEPT !.network.socket = "connected",
                       !.network.connection_state = "CONNECTED",
                       !.network.heartbeat_age = 0],
             Ev("CONNECT_SUCCESS"))
        EXCEPT !.network.running = TRUE]

\* _connect_async lines 191-199: the dial succeeded; _start_background_threads
\* sets _running (the threads it starts are the caller's to record)
DialSucceeded(w) ==
    [Publish([w EXCEPT !.network.socket = "connected",
                       !.network.connection_state = "CONNECTED",
                       !.network.reconnect_count = 0,
                       !.network.heartbeat_age = 0],
             Ev("CONNECT_SUCCESS"))
        EXCEPT !.network.running = TRUE]

\* _handle_connection_failure lines 294-305: one more attempt is announced
AnnounceRetry(w) ==
    [Publish([w EXCEPT !.network.reconnect_count = @ + 1,
                       !.network.connection_state = "RECONNECTING"],
             EvAttempt(w.network.reconnect_count + 1))
        EXCEPT !.network.socket = "None"]

\* NetworkManager._handle_connection_failure up to time.sleep(reconnect_delay):
\* connection_state is RECONNECTING afterwards iff the caller goes on to
\* sleep and dial again
HandleConnectionFailure(w) ==
    IF ~w.network.auto_reconnect
    THEN Publish([w EXCEPT !.network.running = FALSE,
                           !.network.connection_state = "DISCONNECTED"],
                 Ev("DISCONNECTED"))
    ELSE IF w.network.reconnect_count >= MAX_RECONNECT_ATTEMPTS
    THEN Publish([w EXCEPT !.network.running = FALSE,
                           !.network.connection_state = "DISCONNECTED"],
                 EvReason("DISCONNECTED", "max_retries"))
    ELSE AnnounceRetry([w EXCEPT !.network.running = FALSE])

\* _connect_async lines 202-204 / 208-210: socket.connect raised
DialRaised(w, reason) ==
    Publish([w EXCEPT !.network.connection_state = "ERROR"],
            EvReason("CONNECT_FAILED", reason))

\* _connect_async lines 201-211: the dial failed
DialFailed(w, reason) == HandleConnectionFailure(DialRaised(w, reason))

\* line 272-273: elapsed > self.heartbeat_timeout
HeartbeatExpired(n) ==
    n.heartbeat_age # -1 /\ n.heartbeat_age > HEARTBEAT_TIMEOUT

\* _check_heartbeat_timeout that reports the loss and carries on
CheckHeartbeatTimeout_report_only(w) ==
    IF HeartbeatExpired(w.network)
    THEN Publish(w, Ev("DEVICE_HEARTBEAT_LOST"))
    ELSE w

\* NetworkManager._check_heartbeat_timeout
CheckHeartbeatTimeout(w) ==
    IF HeartbeatExpired(w.network)
    THEN HandleConnectionFailure(Publish(w, Ev("DEVICE_HEARTBEAT_LOST")))
    ELSE w

\* _heartbeat_loop lines 256-258: a non-empty reply to *IDN?
HeartbeatOk(w) ==
    Publish([w EXCEPT !.network.heartbeat_age = 0], Ev("DEVICE_HEARTBEAT"))

\* _heartbeat_loop lines 255-260: after send_command(*IDN?) returned
HeartbeatResult(w, response) ==
    IF response # <<>> THEN HeartbeatOk(w) ELSE CheckHeartbeatTimeout(w)

\* one iteration of _heartbeat_loop up to its first sleep
HeartbeatIteration(w, io, rcv) ==
    HeartbeatResult(QueryWorld(w, QUERY_ID, io, rcv),
                    QueryResponse(w, io, rcv))

\* NetworkManager.disconnect
NetDisconnect(w) ==
    Publish([w EXCEPT !.network.running = FALSE,
                      !.network.auto_reconnect = FALSE,
                      !.network.socket = "None",
                      !.network.connection_state = "DISCONNECTED"],
            Ev("DISCONNECTED"))

\* Model.disconnect closing the connection before it stops the broadcast
ModelDisconnect_close_first(w, io) ==
    IF w.model.device_state.broadcasting
    THEN set_broadcast(NetDisconnect(w), FALSE, io)
    ELSE NetDisconnect(w)

\* Model.disconnect
ModelDisconnect(w, io) ==
    NetDisconnect(IF w.model.device_state.broadcasting
                  THEN set_broadcast(w, FALSE, io)
                  ELSE w)

\* datetime.now() advancing by one second: the age of _last_heartbeat grows
AgeHeartbeat(n) ==
    IF n.heartbeat_age = -1 \/ n.heartbeat_age > HEARTBEAT_TIMEOUT THEN n
    ELSE [n EXCEPT !.heartbeat_age = @ + 1]

\* ------------------------------------------------------------------------
\* STATUS? replies offered to the reconciler
\* ------------------------------------------------------------------------
StatusEntries ==
    {<<"broadcasting", "0">>, <<"broadcasting", "1">>,
     <<"watchdog_triggered", "0">>, <<"watchdog_triggered", "1">>,
     <<"watchdog_warning", "1">>}
    \cup {<<KeyEnabled(ch), v>> : ch \in ChannelIds, v \in {"0", "1"}}
    \cup {<<KeyFreq(ch), "700000">> : ch \in ChannelIds}

\* a fixed order of the entries
RECURSIVE SeqOfSet(_)
SeqOfSet(S) ==
    IF S = {} THEN <<>>
    ELSE LET e == CHOOSE x \in S : TRUE
         IN  <<e>> \o SeqOfSet(S \ {e})

DistinctKeys(S) == \A e1, e2 \in S : e1 # e2 => e1[1] # e2[1]

\* sets of at most n entries with pairwise distinct keys
EntrySets(n) ==
    {S \in SUBSET StatusEntries : Cardinality(S) <= n /\ DistinctKeys(S)}

\* delimiter.join("key=value")
RECURSIVE Join(_, _)
Join(es, d) ==
    IF es = <<>> THEN <<>>
    ELSE IF Len(es) = 1 THEN <<es[1][1], "=", es[1][2]>>
    ELSE <<es[1][1], "=", es[1][2], d>> \o Join(Tail(es), d)

\* the reply of gui/mock_server.py, which has no key=value entry
MockReply == <<"BROADCAST:1", ",", "WATCHDOG:0", ",", "TEMP:42.5">>

\* replies in the format the client splits (","), with at most MaxParts entries
CommaReplies == {Join(SeqOfSet(S), ",") : S \in EntrySets(MaxParts)}

\* replies joined as AMRadioController.get_status joins them (";")
SemicolonReplies ==
    {Join(<<<<"broadcasting", b>>, <<"watchdog_triggered", t>>>>, ";") :
        b \in {"0", "1"}, t \in {"0", "1"}}
    \cup {Join(<<<<"watchdog_triggered", "1">>, <<"broadcasting", "1">>>>, ";")}

\* a frequency that int() rejects
BadFreqReply == <<KeyFreq(1), "=", "abc", ",", KeyEnabled(1), "=", "1">>

\* the replies of the end-to-end scenario, joined as get_status joins them
E2EReply(triggered) ==
    Join(<<<<"broadcasting", "0">>, <<"watchdog_triggered", triggered>>,
           <<KeyEnabled(1), "0">>, <<KeyFreq(1), "540000">>>>, ";")

StatusReplies ==
    CommaReplies \cup SemicolonReplies \cup {MockReply, BadFreqReply}
    \cup {E2EReply("0"), E2EReply("1")}

\* the replies offered where the reconciler is not the subject
FewReplies ==
    {<<"broadcasting", "=", "1">>, <<"broadcasting", "=", "0">>,
     <<KeyEnabled(1), "=", "1", ",", KeyFreq(1), "=", "700000">>,
     <<KeyEnabled(1), "=", "0">>,
     MockReply}

\* the reply to *IDN? (one token)
IdnReply == <<"RedPitaya,AMRadio-12CH,v2.0">>

\* what socket.recv can produce for a query
Reply(text) == [kind |-> "reply", text |-> text]
RecvTimeout == [kind |-> "timeout", text |-> <<>>]
RecvError == [kind |-> "error", text |-> <<>>]

RecvOutcomes(replies) ==
    {Reply(r) : r \in replies \cup {<<>>}} \cup {RecvTimeout, RecvError}

\* the text of the reply carries an entry key=val (whatever the delimiter)
Carries(status, key, val) ==
    \E i \in DOMAIN status :
        /\ i + 2 <= Len(status)
        /\ status[i] = key /\ status[i + 1] = "=" /\ status[i + 2] = val
        /\ (i = 1 \/ status[i - 1] \in {",", ";"})
        /\ (i + 2 = Len(status) \/ status[i + 3] \in {",", ";"})

\* the reply parses cleanly: every part is a key=value entry and the values
\* the reconciler converts with int() are integers
CleanPart(part) ==
    /\ "=" \in Range(part)
    /\ (\/ KeyOf(part) \in {<<KeyFreq(ch)>> : ch \in ChannelIds}
        \/ KeyOf(part) = <<"watchdog_time">>) => IsInt(ValueOf(part))

Clean(status) ==
    /\ status # <<>>
    /\ \A part \in Range(SplitOn(status, ",")) : CleanPart(part)

\* ------------------------------------------------------------------------
\* State
\* ------------------------------------------------------------------------
VARIABLES
    model,        \* the Model object
    network,      \* the NetworkManager object
    sent,         \* commands written to the socket by the last step
    published,    \* events published by the last step
    op,           \* the operation the last step performed
    threads,      \* where each thread of the NetworkManager is
    reachable,    \* the device accepts connections and answers
    hist,         \* what has happened since the last connect or disconnect
    device,       \* the SCPI server on the device
    bus           \* the EventBus object and the threads inside publish

clientVars == <<model, network, sent, published, op>>
vars == <<model, network, sent, published, op, threads, reachable, hist, device,
          bus>>

\* name: the operation; thread: the thread that ran it; active, ch: its
\* arguments; for a poll iteration, reconciled: _parse_and_publish_status
\* ran, trig / bcast: the reply text carries watchdog_triggered=1 /
\* broadcasting=1, clean: the reply parses cleanly, e2e: the reply is the
\* first (1) or second (2) reply of the end-to-end scenario; for a heartbeat iteration, connected / expired: the
\* connection was CONNECTED / the heartbeat had expired when it ran; for a
\* dial, ok: the connection was established, via: the connection_state the
\* step assigned before the one it ended with ("" if it assigned at most one);
\* again: the step before was the same operation with the same arguments;
\* rejected: an argument of the request is invalid; outcome: how the audio
\* loader that exited ended
Op(name) == [name |-> name, thread |-> <<>>, active |-> FALSE, ch |-> 0,
             reconciled |-> FALSE, trig |-> FALSE, bcast |-> FALSE,
             connected |-> FALSE, expired |-> FALSE, ok |-> FALSE,
             via |-> "", clean |-> FALSE, e2e |-> 0, again |-> FALSE,
             rejected |-> FALSE, outcome |-> ""]

PollOp(status) ==
    [Op("poll") EXCEPT !.reconciled = (status # <<>>),
                       !.clean = Clean(status),
                       !.e2e = IF status = E2EReply("0") THEN 1
                               ELSE IF status = E2EReply("1") THEN 2
                               ELSE 0,
                       !.trig = Carries(status, "watchdog_triggered", "1"),
                       !.bcast = Carries(status, "broadcasting", "1")]

\* the world an operation starts from
World == [model |-> model, network |-> network,
          sent |-> <<>>, published |-> <<>>]

\* the UI thread, the thread of each connect() call and the heartbeat and
\* poll threads started by each successful dial
Ui == <<"ui", 1>>

ThreadIds ==
    {Ui} \cup ({"conn"} \X (1..MaxConnects))
         \cup ({"hb", "poll"} \X (1..MaxSessions))

\* AUDIO_FILES and AUDIO_LOADER
AudioPath(id) ==
    CASE id = 1 -> "/root/alarm_fast.wav"
      [] id = 2 -> "/root/0009_part1.wav"
      [] id = 3 -> "/root/0009_part2_fast.wav"

AUDIO_LOADER == "/root/axi_audio_loader.py"

\* the device-side server before a client connects (AMRadioController.__init__,
\* run_server up to accept)
\* link: "none" (the server waits in accept), "up" (a client is connected
\* and sends), "hung" (connected, but the client sends nothing any more),
\* "lost" (the connection is broken and the server has not returned from
\* recv yet); heartbeat: where the heartbeat thread of run_server is;
\* current: the value it read from REG_CTRL; response: the last reply;
\* reg_ch_freq: the frequency registers of the channels; audio_files: the
\* dict AUDIO_FILES; disk: the paths that exist on the device (the file of
\* message 2 is missing); queries, replies: the lines with "?" received and
\* the reply lines sent on the present connection; outbox: the reply lines
\* sent and not yet read by the client, asked: the query each of them
\* answers, awaited: the query the client last wrote; starting: loader threads started that have not run
\* their first statement; running: loader threads inside subprocess.run
DeviceInit == [ctrl_shadow |-> 0,
               ch_enable_shadow |-> 0,
               reg_ctrl |-> 0,
               reg_ch_enable |-> 0,
               client_connected |-> FALSE,
               heartbeat |-> "off",
               current |-> 0,
               link |-> "none",
               response |-> <<>>,
               queries |-> 0,
               replies |-> 0,
               outbox |-> <<>>,
               asked |-> <<>>,
               awaited |-> Cmd(""),
               ch_freqs |-> [ch \in ChannelIds |-> 0],
               reg_ch_freq |-> [ch \in ChannelIds |-> 0],
               current_msg |-> 0,
               audio_loading |-> FALSE,
               audio_files |-> [id \in 1..3 |-> AudioPath(id)],
               disk |-> {AudioPath(1), AudioPath(3), AUDIO_LOADER,
                         "/ROOT/B.WAV"},
               starting |-> 0,
               running |-> 0]

\* the event types, handlers and publishing threads of the event bus model;
\* the handlers in Raising raise an Exception when called
BusTypes == {"CONNECT_SUCCESS", "DISCONNECTED"}
Handlers == {"h1", "h2"}
Raising == {"h2"}
Publishers == 1..2

\* a thread outside publish
IdlePublisher == [pc |-> "idle", event |-> <<>>, tmp |-> <<>>, todo |-> <<>>,
                  at_call |-> <<>>, calls |-> <<>>]

\* EventBus.__init__ (_max_log_size is MaxLog here)
\* order: every event appended to the log, in the order of the appends
BusInit == [subscribers |-> [type \in BusTypes |-> <<>>],
            event_log |-> <<>>,
            order |-> <<>>,
            pub |-> [t \in Publishers |-> IdlePublisher]]

HistInit == [down |-> FALSE, attempts |-> 0, terminals |-> 0,
             sessions |-> 0, connects |-> 0]

Init ==
    /\ model = ModelInit
    /\ network = NetworkInit
    /\ sent = <<>>
    /\ published = <<>>
    /\ op = Op("init")
    /\ threads = [t \in ThreadIds |-> "idle"]
    /\ reachable = TRUE
    /\ hist = HistInit
    /\ device = DeviceInit
    /\ bus = BusInit

\* ------------------------------------------------------------------------
\* Sequential behaviour: every operation runs to completion before the next
\* ------------------------------------------------------------------------
Commit(w, o) ==
    /\ model' = w.model
    /\ network' = w.network
    /\ sent' = w.sent
    /\ published' = w.published
    /\ op' = o
    /\ UNCHANGED <<threads, reachable, hist, device, bus>>

\* sleep(reconnect_delay) and _connect_async, repeated until a dial succeeds
\* (after okAfter failures) or the failure handler stops
RECURSIVE ReconnectChain(_, _)
ReconnectChain(w, okAfter) ==
    IF w.network.connection_state # "RECONNECTING" THEN w
    ELSE IF okAfter = 0 THEN DialSucceeded(DialBegin(w))
    ELSE ReconnectChain(DialFailed(DialBegin(w), "timeout"), okAfter - 1)

\* _connect_async and the reconnection that follows a failure
ConnectAsync(w, okAfter) ==
    IF okAfter = 0 THEN DialSucceeded(DialBegin(w))
    ELSE ReconnectChain(DialFailed(DialBegin(w), "timeout"), okAfter - 1)

\* okAfter: the number of failing dials before the first that succeeds
DialPlans == {0, MAX_RECONNECT_ATTEMPTS + 1}

\* Model.connect and the connect thread it starts
Connect(okAfter) ==
    /\ network.connection_state = "DISCONNECTED"
    /\ Commit(ConnectAsync(ModelConnect(World), okAfter), Op("connect"))

\* Model.disconnect
Disconnect(io) ==
    Commit(ModelDisconnect(World, io), Op("disconnect"))

\* what one poll iteration meets: the outcome of the two writes and of the
\* read
PollPlan(io1, io2, rcv) == [reset |-> io1, query |-> io2, rcv |-> rcv]

PollPlans(replies) ==
    {PollPlan("ok", "ok", rcv) : rcv \in RecvOutcomes(replies)}
    \cup {PollPlan(io1, "ok", Reply(r)) :
             io1 \in {"timeout", "error"}, r \in {MockReply}}
    \cup {PollPlan(io1, io2, RecvTimeout) :
             io1 \in IoOutcomes, io2 \in {"timeout", "error"}}

\* the reply the poll iteration's status query returns
PollResponse(plan) ==
    QueryResponse(SendCommand(World, WATCHDOG_RESET, plan.reset),
                  plan.query, plan.rcv)

\* one poll iteration
PollTick(plan) ==
    /\ network.running /\ network.connection_state = "CONNECTED"
    /\ Commit(PollIteration(World, plan.reset, plan.query, plan.rcv),
              PollOp(PollResponse(plan)))

\* the heartbeat stays unanswered for more than HEARTBEAT_TIMEOUT and the
\* next iteration of _heartbeat_loop runs (lines 255-262), including the
\* reconnection it performs
HeartbeatSilence(okAfter) ==
    /\ network.running /\ network.connection_state = "CONNECTED"
    /\ Commit(ReconnectChain(
                  HeartbeatIteration(
                      [World EXCEPT !.network.heartbeat_age =
                                        HEARTBEAT_TIMEOUT + 1],
                      "ok", RecvTimeout),
                  okAfter),
              Op("heartbeat_lost"))

\* inputs of the dispatcher calls
Sources == {"ADC", "BRAM"}
MessageIds == {1}
RequestFreqs == {700000}
RequestChannels == ChannelIds

\* the bound on pending_state
PendingRoom(keys) ==
    \/ DOMAIN model.pending_state = {}
    \/ Cardinality(DOMAIN model.pending_state \cup keys) <= MaxPending

SetSource(source, io) ==
    /\ PendingRoom({"source"})
    /\ Commit(set_source(World, source, io), Op("set_source"))

SetMessage(id, io) ==
    /\ PendingRoom({"message"})
    /\ Commit(set_message(World, id, io), Op("set_message"))

SetChannelFrequency(ch, hz, io) ==
    /\ PendingRoom({KeyFreq(ch)})
    /\ Commit(set_channel_frequency(World, ch, hz, io),
              [Op("set_channel_frequency") EXCEPT !.ch = ch])

SetChannelEnabled(ch, enabled, io) ==
    /\ PendingRoom({KeyEnabled(ch)})
    /\ Commit(set_channel_enabled(World, ch, enabled, io),
              [Op("set_channel_enabled") EXCEPT !.ch = ch, !.active = enabled])

SetBroadcast(active, io) ==
    Commit(set_broadcast(World, active, io),
           [Op("set_broadcast") EXCEPT !.active = active])

ResetWatchdog(io) ==
    Commit(reset_watchdog(World, io), Op("reset_watchdog"))

SetWatchdogEnabled(enabled, io) ==
    Commit(set_watchdog_enabled(World, enabled, io),
           [Op("set_watchdog_enabled") EXCEPT !.active = enabled])

UiChannelEnable(idx, app_data, io) ==
    /\ PendingRoom({KeyEnabled(idx)})
    /\ Commit(_on_channel_enable(World, idx, app_data, io),
              [Op("_on_channel_enable") EXCEPT !.ch = idx, !.active = app_data])

UiFreqChange(idx, hz, io) ==
    /\ PendingRoom({KeyFreq(idx)})
    /\ Commit(_on_freq_change(World, idx, hz, io),
              [Op("_on_freq_change") EXCEPT !.ch = idx])

UiEnableN(n, io) ==
    /\ PendingRoom({KeyEnabled(ch) : ch \in ChannelIds})
    /\ Commit(_on_enable_n_channels(World, n, io), Op("_on_enable_n_channels"))

UiBroadcastClick(io) ==
    Commit(_on_broadcast_click(World, io),
           [Op("_on_broadcast_click") EXCEPT
               !.active = (model.broadcast_state # "BROADCASTING")])

\* the reconciler and the operations that move the broadcast and watchdog
\* state machines
Next ==
    \/ \E k \in DialPlans : Connect(k)
    \/ \E io \in IoOutcomes : Disconnect(io)
    \/ \E plan \in PollPlans(StatusReplies) : PollTick(plan)
    \/ \E k \in DialPlans : HeartbeatSilence(k)
    \/ \E a \in BOOLEAN, io \in IoOutcomes : SetBroadcast(a, io)
    \/ \E io \in IoOutcomes : UiBroadcastClick(io)
    \/ \E io \in IoOutcomes : ResetWatchdog(io)
    \/ \E e \in BOOLEAN, io \in IoOutcomes : SetWatchdogEnabled(e, io)

Spec == Init /\ [][Next]_vars

\* the outcomes of the writes of dispatcher calls
DispatchIo == {"ok", "error"}

\* the command dispatcher and the UI callbacks that call it
DispatchNext ==
    \/ \E k \in DialPlans : Connect(k)
    \/ \E io \in DispatchIo : Disconnect(io)
    \/ \E plan \in PollPlans(FewReplies) : PollTick(plan)
    \/ \E src \in Sources, io \in DispatchIo : SetSource(src, io)
    \/ \E id \in MessageIds, io \in DispatchIo : SetMessage(id, io)
    \/ \E ch \in RequestChannels, hz \in RequestFreqs, io \in DispatchIo :
           SetChannelFrequency(ch, hz, io)
    \/ \E ch \in RequestChannels, e \in BOOLEAN, io \in DispatchIo :
           SetChannelEnabled(ch, e, io)
    \/ \E a \in BOOLEAN, io \in DispatchIo : SetBroadcast(a, io)
    \/ \E idx \in ChannelIds, e \in BOOLEAN, io \in DispatchIo :
           UiChannelEnable(idx, e, io)
    \/ \E idx \in ChannelIds, hz \in RequestFreqs, io \in DispatchIo :
           UiFreqChange(idx, hz, io)
    \/ \E n \in 0..NumChannels, io \in DispatchIo : UiEnableN(n, io)

DispatchSpec == Init /\ [][DispatchNext]_vars

\* ------------------------------------------------------------------------
\* Concurrent behaviour of the connection supervisor: the threads of the
\* NetworkManager and the UI thread interleave at their blocking calls
\* (sleep, socket.connect, the exchange of send_command)
\* ------------------------------------------------------------------------
\* program counters
\*   ui:   idle, disconnect (is_connected() held, Model.disconnect is next)
\*   conn: idle, start, dial, orphan, closed, delay, done
\*   hb:   idle, loop, send, dial, orphan, closed, delay, done
\*   poll: idle, loop, done
\* dial: blocked in socket.connect on the socket self.socket refers to;
\* orphan: on a socket self.socket no longer refers to; closed: on a socket
\* another thread has closed; delay: in time.sleep(reconnect_delay)

\* what the ghost record becomes by a step that published evs
HistAfter(h, evs, o) ==
    [down |-> IF o.name = "disconnect" THEN TRUE
              ELSE IF o.name = "connect" THEN FALSE
              ELSE h.down,
     attempts |-> IF o.name = "connect" \/ "CONNECT_SUCCESS" \in EventTypes(evs)
                  THEN 0
                  ELSE h.attempts + CountType(evs, "RECONNECT_ATTEMPT"),
     terminals |-> IF o.name = "connect" \/ "CONNECT_SUCCESS" \in EventTypes(evs)
                   THEN 0
                   ELSE h.terminals + CountReason(evs, "max_retries"),
     sessions |-> h.sessions + CountType(evs, "CONNECT_SUCCESS"),
     connects |-> h.connects + (IF o.name = "connect" THEN 1 ELSE 0)]

NetCommit(w, o, thr, up) ==
    /\ model' = w.model
    /\ network' = w.network
    /\ sent' = w.sent
    /\ published' = w.published
    /\ op' = o
    /\ threads' = thr
    /\ reachable' = up
    /\ hist' = HistAfter(hist, w.published, o)
    /\ UNCHANGED <<device, bus>>

\* where thread t resumes once _handle_connection_failure or _connect_async
\* returns: the heartbeat loop sleeps and tests its condition, the connect
\* thread ends
After(t) == IF t[1] = "hb" THEN "loop" ELSE "done"

\* self.socket.close() by thread t: a dial in progress on that socket is cut
CloseDial(thr, t) ==
    [u \in DOMAIN thr |->
        IF u # t /\ thr[u] = "dial" THEN "closed" ELSE thr[u]]

\* self.socket = socket.socket(...) by thread t: a dial in progress on the
\* former socket goes on without self.socket referring to it
NewSocket(thr, t) ==
    [u \in DOMAIN thr |->
        IF u = t THEN "dial"
        ELSE IF thr[u] = "dial" THEN "orphan" ELSE thr[u]]

\* _start_background_threads: the threads of session s
StartBackgroundThreads(thr, s) ==
    [thr EXCEPT ![<<"hb", s>>] = "loop", ![<<"poll", s>>] = "loop"]

\* thread t after the failure handling that left the world w
AfterFailure(thr, t, w) ==
    IF "RECONNECT_ATTEMPT" \in EventTypes(w.published)
    THEN CloseDial([thr EXCEPT ![t] = "delay"], t)
    ELSE [thr EXCEPT ![t] = After(t)]

\* Controller._on_connect_click, else branch: Model.connect
UserConnect ==
    /\ threads[Ui] = "idle"
    /\ network.connection_state # "CONNECTED"
    /\ hist.connects < MaxConnects
    /\ NetCommit(ModelConnect(World),
                 [Op("connect") EXCEPT !.thread = Ui],
                 [threads EXCEPT ![<<"conn", hist.connects + 1>>] = "start"],
                 reachable)

\* Controller._on_connect_click, line 338: is_connected() holds
ClickDisconnect ==
    /\ threads[Ui] = "idle"
    /\ network.connection_state = "CONNECTED"
    /\ NetCommit(World, [Op("click") EXCEPT !.thread = Ui],
                 [threads EXCEPT ![Ui] = "disconnect"], reachable)

\* Controller._on_connect_click, line 339: Model.disconnect
UserDisconnect(io) ==
    /\ threads[Ui] = "disconnect"
    /\ NetCommit(ModelDisconnect(World, io),
                 [Op("disconnect") EXCEPT !.thread = Ui],
                 CloseDial([threads EXCEPT ![Ui] = "idle"], Ui),
                 reachable)

\* the connect thread starts, or time.sleep(reconnect_delay) ends:
\* _connect_async up to the blocking socket.connect
Wake(t) ==
    /\ threads[t] \in {"start", "delay"}
    /\ NetCommit(DialBegin(World), [Op("wake") EXCEPT !.thread = t],
                 NewSocket(threads, t), reachable)

\* the outcome of socket.connect for thread t; a socket closed under the
\* dial fails it (cut) or not
Established(t, cut) ==
    reachable /\ (threads[t] = "closed" => ~cut)

\* _connect_async after a successful socket.connect; self.socket is the
\* connected socket only if it still refers to the socket of this dial
\* (the device accepts MaxSessions connections in a behaviour and is
\* unreachable after the last)
DialOk(t) ==
    NetCommit(IF threads[t] = "dial" THEN DialSucceeded(World)
              ELSE [DialSucceeded(World) EXCEPT !.network.socket = network.socket],
              [Op("dial") EXCEPT !.thread = t, !.ok = TRUE],
              StartBackgroundThreads([threads EXCEPT ![t] = After(t)],
                                     hist.sessions + 1),
              hist.sessions + 1 < MaxSessions)

\* _connect_async after socket.connect raised, with the failure handling w
DialError(t, w) ==
    NetCommit(w,
              [Op("dial") EXCEPT
                  !.thread = t,
                  !.via = DialRaised(World, "").network.connection_state],
              AfterFailure(threads, t, w), reachable)

\* socket.connect returns or raises
Dial(t, cut) ==
    /\ threads[t] \in {"dial", "orphan", "closed"}
    /\ IF Established(t, cut)
       THEN DialOk(t)
       ELSE DialError(t, DialFailed(World, IF reachable THEN "error" ELSE "timeout"))

\* _heartbeat_loop: the loop condition holds
HbEnter(t) ==
    /\ t[1] = "hb" /\ threads[t] = "loop"
    /\ network.running /\ network.connection_state = "CONNECTED"
    /\ NetCommit(World, [Op("hb_enter") EXCEPT !.thread = t],
                 [threads EXCEPT ![t] = "send"], reachable)

\* _heartbeat_loop: the loop condition fails and the thread ends
HbExit(t) ==
    /\ t[1] = "hb" /\ threads[t] = "loop"
    /\ ~(network.running /\ network.connection_state = "CONNECTED")
    /\ NetCommit(World, [Op("hb_exit") EXCEPT !.thread = t],
                 [threads EXCEPT ![t] = "done"], reachable)

\* what the *IDN? exchange can meet: the reply of a reachable device,
\* otherwise a write error, a read timeout or an empty read
HbFailures ==
    {<<"error", RecvTimeout>>, <<"ok", RecvTimeout>>, <<"ok", Reply(<<>>)>>}

HbOutcomes == IF reachable THEN {<<"ok", Reply(IdnReply)>>} ELSE HbFailures

\* the heartbeat iteration of thread t left the world w
HbDone(t, w) ==
    NetCommit(w,
              [Op("heartbeat") EXCEPT
                  !.thread = t,
                  !.connected = (network.connection_state = "CONNECTED"),
                  !.expired = HeartbeatExpired(network)],
              IF "RECONNECT_ATTEMPT" \in EventTypes(w.published)
              THEN AfterFailure(threads, t, w)
              ELSE [threads EXCEPT ![t] = "loop"],
              reachable)

\* one iteration of _heartbeat_loop, lines 255-260, up to the sleep it
\* reaches
HbExchange(t, out) ==
    /\ threads[t] = "send"
    /\ out \in HbOutcomes
    /\ HbDone(t, HeartbeatIteration(World, out[1], out[2]))

\* the replies to STATUS? of a reachable device
LiveStatus == <<"broadcasting", "=", "0">>

PollRecv == IF reachable THEN Reply(LiveStatus) ELSE RecvTimeout

\* one iteration of _poll_loop by thread t
PollStep(t) ==
    /\ t[1] = "poll" /\ threads[t] = "loop"
    /\ network.running /\ network.connection_state = "CONNECTED"
    /\ NetCommit(PollIteration(World, "ok", "ok", PollRecv),
                 [PollOp(PollResponse(PollPlan("ok", "ok", PollRecv)))
                     EXCEPT !.thread = t],
                 threads, reachable)

\* _poll_loop: the loop condition fails and the thread ends
PollExit(t) ==
    /\ t[1] = "poll" /\ threads[t] = "loop"
    /\ ~(network.running /\ network.connection_state = "CONNECTED")
    /\ NetCommit(World, [Op("poll_exit") EXCEPT !.thread = t],
                 [threads EXCEPT ![t] = "done"], reachable)

\* a second passes
Tick ==
    /\ AgeHeartbeat(network) # network
    /\ NetCommit([World EXCEPT !.network = AgeHeartbeat(@)], Op("tick"),
                 threads, reachable)

\* the device stops answering (power, cable, network)
DeviceDown ==
    /\ reachable
    /\ NetCommit(World, Op("device_down"), threads, FALSE)

\* the device answers again
DeviceUp ==
    /\ ~reachable
    /\ hist.sessions < MaxSessions
    /\ NetCommit(World, Op("device_up"), threads, TRUE)

NetNext ==
    \/ UserConnect
    \/ ClickDisconnect
    \/ UserDisconnect("ok")
    \/ \E t \in ThreadIds : Wake(t)
    \/ \E t \in ThreadIds, cut \in BOOLEAN : Dial(t, cut)
    \/ \E t \in ThreadIds : HbEnter(t)
    \/ \E t \in ThreadIds : HbExit(t)
    \/ \E t \in ThreadIds, out \in HbFailures \cup {<<"ok", Reply(IdnReply)>>} :
           HbExchange(t, out)
    \/ \E t \in ThreadIds : PollStep(t)
    \/ \E t \in ThreadIds : PollExit(t)
    \/ Tick
    \/ DeviceDown
    \/ DeviceUp

NetSpec == Init /\ [][NetNext]_vars

\* a sleep ends and a blocking socket.connect returns (SOCKET_TIMEOUT)
NetFairness ==
    \A t \in ThreadIds :
        /\ WF_vars(Wake(t))
        /\ WF_vars(\E cut \in BOOLEAN : Dial(t, cut))

FairNetSpec == NetSpec /\ NetFairness

\* ------------------------------------------------------------------------
\* Device side: am_scpi_server.py
\* ------------------------------------------------------------------------
\* control register bits
CTRL_MASTER_EN == 0
CTRL_SOURCE == 3
CTRL_WATCHDOG_EN == 4

\* v & (1 << bit), v | (1 << bit), v & ~(1 << bit)
BitSet(v, bit) == (v \div (2 ^ bit)) % 2 = 1
SetBit(v, bit) == IF BitSet(v, bit) THEN v ELSE v + 2 ^ bit
ClearBit(v, bit) == IF BitSet(v, bit) THEN v - 2 ^ bit ELSE v

\* the value of ctrl_shadow after set_ctrl_bit
CtrlAfter(v, bit, value) ==
    IF value THEN SetBit(v, bit) ELSE ClearBit(v, bit)

\* AMRadioController.set_ctrl_bit
set_ctrl_bit(d, bit, value) ==
    [d EXCEPT !.ctrl_shadow = CtrlAfter(@, bit, value),
              !.reg_ctrl = CtrlAfter(d.ctrl_shadow, bit, value)]

\* set_channel_enable inverting the bit of the channel on every call
set_channel_enable_toggle(d, ch_num, enabled) ==
    IF ch_num \in 1..12
    THEN [d EXCEPT !.ch_enable_shadow =
                       CtrlAfter(@, ch_num - 1, ~BitSet(@, ch_num - 1)),
                   !.reg_ch_enable =
                       CtrlAfter(d.ch_enable_shadow, ch_num - 1,
                                 ~BitSet(d.ch_enable_shadow, ch_num - 1))]
    ELSE d

\* AMRadioController.set_channel_enable
set_channel_enable(d, ch_num, enabled) ==
    IF ch_num \in 1..12
    THEN [d EXCEPT !.ch_enable_shadow = CtrlAfter(@, ch_num - 1, enabled),
                   !.reg_ch_enable =
                       CtrlAfter(d.ch_enable_shadow, ch_num - 1, enabled)]
    ELSE d

\* the clock of the FPGA fabric, in Hz
FPGA_CLK_HZ == 125000000

\* numerator / FPGA_CLK_HZ for numerator = freq_hz * 2 ^ k, as the pair
\* <<quotient, remainder>>; q and r are the quotient and remainder of freq_hz
RECURSIVE ShiftDiv(_, _, _)
ShiftDiv(q, r, k) ==
    IF k = 0 THEN <<q, r>>
    ELSE ShiftDiv(2 * q + (IF 2 * r >= FPGA_CLK_HZ THEN 1 ELSE 0),
                  (2 * r) % FPGA_CLK_HZ, k - 1)

\* int.bit_length()
RECURSIVE BitLength(_)
BitLength(n) == IF n = 0 THEN 0 ELSE 1 + BitLength(n \div 2)

\* n >> k
ShiftRight(n, k) == IF k >= 31 THEN 0 ELSE n \div (2 ^ k)

\* the true division produces a double: the exact quotient rounded to 53
\* significant bits. It reaches the next integer when the distance of the
\* exact quotient to it is at most half a unit in the last place, which is
\* (FPGA_CLK_HZ - r) / FPGA_CLK_HZ <= 2 ^ (BitLength(q) - 54)
RoundsToNext(qr) ==
    /\ qr[1] > 0
    /\ FPGA_CLK_HZ - qr[2] <= ShiftRight(FPGA_CLK_HZ, 54 - BitLength(qr[1]))

\* the double taken up to the next integer
IntOfQuotient_next(qr) == qr[1] + 1

\* int(double): the integer part of the double
IntOfQuotient(qr) == IF RoundsToNext(qr) THEN qr[1] + 1 ELSE qr[1]

\* round(): the integer nearest to the quotient
Nearest(qr) == IF 2 * qr[2] >= FPGA_CLK_HZ THEN qr[1] + 1 ELSE qr[1]

\* freq_to_phase_inc rounding to the nearest integer
freq_to_phase_inc_nearest(freq_hz) ==
    Nearest(ShiftDiv(freq_hz \div FPGA_CLK_HZ, freq_hz % FPGA_CLK_HZ, 32))

\* AMRadioController.freq_to_phase_inc, for 0 <= freq_hz < 2 ^ 20 * 125:
\* int((freq_hz * (1 << 32)) / FPGA_CLK_HZ) & 0xFFFFFFFF, where the quotient
\* is below 2 ^ 31 and the mask leaves it as it is
freq_to_phase_inc(freq_hz) ==
    IntOfQuotient(ShiftDiv(freq_hz \div FPGA_CLK_HZ,
                           freq_hz % FPGA_CLK_HZ, 32))

\* AMRadioController.set_channel_freq (CH_FREQ_REGS has the channels 1..12)
set_channel_freq(d, ch_num, freq_hz) ==
    IF ch_num \in ChannelIds
    THEN [d EXCEPT !.ch_freqs[ch_num] = freq_hz,
                   !.reg_ch_freq[ch_num] = freq_to_phase_inc(freq_hz)]
    ELSE d

\* "%d" % n
FormatInt(n) ==
    CASE n = 0 -> "0"
      [] n = 1 -> "1"
      [] n = 2 -> "2"
      [] n = 3 -> "3"
      [] n = 4 -> "4"
      [] n = 99 -> "99"
      [] n = 540000 -> "540000"
      [] n = 640000 -> "640000"
      [] n = 700000 -> "700000"
      [] n = 900000 -> "900000"

\* the entries get_status appends for the channels from ch on
RECURSIVE ChannelEntries(_, _)
ChannelEntries(d, ch) ==
    IF ch > NumChannels THEN <<>>
    ELSE <<<<KeyEnabled(ch),
             IF BitSet(d.ch_enable_shadow, ch - 1) THEN "1" ELSE "0">>,
           <<KeyFreq(ch), FormatInt(d.ch_freqs[ch])>>>>
         \o ChannelEntries(d, ch + 1)

\* AMRadioController.get_status
get_status(d) ==
    Join(<<<<"broadcasting", IF BitSet(d.ctrl_shadow, 0) THEN "1" ELSE "0">>,
           <<"source", IF BitSet(d.ctrl_shadow, 3) THEN "ADC" ELSE "BRAM">>,
           <<"current_msg", FormatInt(d.current_msg)>>,
           <<"audio_loading", IF d.audio_loading THEN "1" ELSE "0">>>>
         \o ChannelEntries(d, 1), ";")

Respond(d, text) == [d EXCEPT !.response = <<text>>]

\* the message field of the control register starts at this bit
CTRL_MSG_SHIFT == 4

\* ctrl_shadow &= ~(0xF << CTRL_MSG_SHIFT);
\* ctrl_shadow |= ((msg_id & 0xF) << CTRL_MSG_SHIFT)
WithMsgBits(v, msg_id) ==
    v - ((v \div (2 ^ CTRL_MSG_SHIFT)) % 16) * (2 ^ CTRL_MSG_SHIFT)
      + (msg_id % 16) * (2 ^ CTRL_MSG_SHIFT)

\* load_audio_file returns True: the checks of lines 176-195 pass
LoadAccepted(d, msg_id) ==
    /\ msg_id \in DOMAIN d.audio_files
    /\ d.audio_files[msg_id] \in d.disk
    /\ AUDIO_LOADER \in d.disk
    /\ ~d.audio_loading

\* AMRadioController.load_audio_file: the loader thread is started; it sets
\* audio_loading itself, when it runs
load_audio_file(d, msg_id) ==
    IF LoadAccepted(d, msg_id) THEN [d EXCEPT !.starting = @ + 1] ELSE d

\* process_command, SOURCE:MSG
select_message(d, msg_id) ==
    [load_audio_file([d EXCEPT !.ctrl_shadow = WithMsgBits(@, msg_id),
                               !.reg_ctrl = WithMsgBits(d.ctrl_shadow, msg_id),
                               !.current_msg = msg_id],
                     msg_id)
        EXCEPT !.response =
                   IF LoadAccepted(d, msg_id) THEN <<"OK:LOADING">>
                   ELSE <<"OK:NO_FILE">>]

\* cmd.strip().upper() on the paths of the model
Upper(path) ==
    CASE path = "/root/alarm_fast.wav" -> "/ROOT/ALARM_FAST.WAV"
      [] OTHER -> path

\* AUDIO_FILES[99] = filepath
WithAudioFile(d, filepath) ==
    [d EXCEPT !.audio_files =
                  [id \in DOMAIN @ \cup {99} |->
                      IF id = 99 THEN filepath ELSE @[id]]]

\* process_command, AUDIO:LOAD: the path is taken from the upper-cased command
load_path(d, filepath) ==
    IF filepath \notin d.disk THEN Respond(d, "ERROR:FILE_NOT_FOUND")
    ELSE Respond(load_audio_file(WithAudioFile(d, filepath), 99),
                 IF LoadAccepted(WithAudioFile(d, filepath), 99)
                 THEN "OK:LOADING" ELSE "ERROR:BUSY")

\* process_command, AUDIO:STATUS?
audio_status(d) ==
    Join(<<<<"loading", IF d.audio_loading THEN "1" ELSE "0">>,
           <<"msg", FormatInt(d.current_msg)>>>>, ";")


\* AMRadioController.process_command for the commands of the model
process_command(d, cmd) ==
    CASE cmd = QUERY_ID -> [d EXCEPT !.response = IdnReply]
      [] cmd = QUERY_STATUS -> [d EXCEPT !.response = get_status(d)]
      [] cmd = AUDIO_STATUS -> [d EXCEPT !.response = audio_status(d)]
      [] cmd.name = "SOURCE:MSG" -> select_message(d, cmd.num)
      [] cmd.name = "AUDIO:LOAD" -> load_path(d, Upper(cmd.str))
      [] cmd.name = "FREQ:CH" /\ cmd.ch \in 1..12 ->
            Respond(set_channel_freq(d, cmd.ch, cmd.num), "OK")
      [] cmd = SET_BROADCAST("ON") ->
            Respond(set_ctrl_bit(set_ctrl_bit(d, CTRL_MASTER_EN, TRUE),
                                 CTRL_WATCHDOG_EN, TRUE), "OK")
      [] cmd = SET_BROADCAST("OFF") ->
            Respond(set_ctrl_bit(d, CTRL_MASTER_EN, FALSE), "OK")
      [] cmd.name = "CH:OUTPUT" /\ cmd.ch \in 1..12 /\ cmd.str \in {"ON", "OFF"} ->
            Respond(set_channel_enable(d, cmd.ch, cmd.str = "ON"), "OK")
      [] cmd = SET_SOURCE("ADC") ->
            Respond(set_ctrl_bit(d, CTRL_SOURCE, TRUE), "OK")
      [] cmd = SET_SOURCE("BRAM") ->
            Respond(set_ctrl_bit(d, CTRL_SOURCE, FALSE), "OK")
      [] cmd = WATCHDOG_RESET -> Respond(d, "OK")
      [] cmd.name = "WATCHDOG:ENABLE" -> Respond(d, "OK")
      [] OTHER -> Respond(d, "ERROR")

\* the frequencies a client sets
DeviceFreqs == {540000, 700000}

\* the commands a client sends to the device
DeviceCommands ==
    {QUERY_ID, WATCHDOG_RESET, WATCHDOG_ENABLE("ON")}
    \cup {SET_BROADCAST(s) : s \in {"ON", "OFF"}}
    \cup {SET_SOURCE(s) : s \in Sources}
    \cup {SET_OUTPUT(ch, s) : ch \in ChannelIds, s \in {"ON", "OFF"}}
    \cup {SET_FREQ(ch, hz) : ch \in ChannelIds, hz \in DeviceFreqs}
    \cup {QUERY_STATUS}

\* the RF output is enabled in the control register
RfOn(d) == BitSet(d.reg_ctrl, CTRL_MASTER_EN)

DevCommit(d, o) ==
    /\ device' = d
    /\ op' = o
    /\ sent' = <<>>
    /\ published' = <<>>
    /\ UNCHANGED <<model, network, threads, reachable, hist, bus>>

\* run_server: accept returns and the heartbeat thread is started; a
\* heartbeat thread left from the previous connection sees the new flag and
\* goes on doing the same writes
Accept ==
    /\ device.link = "none"
    /\ DevCommit([device EXCEPT !.link = "up",
                                !.client_connected = TRUE,
                                !.heartbeat = IF @ = "off" THEN "read" ELSE @],
                 Op("accept"))

\* run_server: one line is received and processed
Command(cmd) ==
    /\ device.link = "up"
    /\ DevCommit(process_command(device, cmd), Op("process_command"))

\* heartbeat: current = fpga.read32(REG_CTRL)
HeartbeatRead ==
    /\ device.heartbeat = "read"
    /\ DevCommit([device EXCEPT !.current = device.reg_ctrl,
                                !.heartbeat = "write"],
                 Op("heartbeat_read"))

\* heartbeat: fpga.write32(REG_CTRL, current), then time.sleep(2)
HeartbeatWrite ==
    /\ device.heartbeat = "write"
    /\ DevCommit([device EXCEPT !.reg_ctrl = device.current,
                                !.heartbeat = "sleep"],
                 Op("heartbeat_write"))

\* heartbeat: the sleep ends and the loop condition is tested
HeartbeatWake ==
    /\ device.heartbeat = "sleep"
    /\ DevCommit([device EXCEPT !.heartbeat =
                     IF device.client_connected THEN "read" ELSE "off"],
                 Op("heartbeat_wake"))

\* the client stops sending (its poller stopped, or it hangs) while the TCP
\* connection stays open
ControllerHangs ==
    /\ device.link = "up"
    /\ DevCommit([device EXCEPT !.link = "hung"], Op("controller_hangs"))

\* the connection breaks
LinkLost ==
    /\ device.link \in {"up", "hung"}
    /\ DevCommit([device EXCEPT !.link = "lost"], Op("link_lost"))

\* run_server: recv returns nothing or raises; conn.close()
ServerNotices ==
    /\ device.link = "lost"
    /\ DevCommit([device EXCEPT !.link = "none",
                                !.client_connected = FALSE],
                 Op("server_notices"))

DevNext ==
    \/ Accept
    \/ \E cmd \in DeviceCommands : Command(cmd)
    \/ HeartbeatRead
    \/ HeartbeatWrite
    \/ HeartbeatWake
    \/ ControllerHangs
    \/ LinkLost
    \/ ServerNotices

DevSpec == Init /\ [][DevNext]_vars

\* the heartbeat thread of the server runs
DevFairSpec ==
    DevSpec /\ WF_vars(HeartbeatRead) /\ WF_vars(HeartbeatWrite)
            /\ WF_vars(HeartbeatWake)


\* ------------------------------------------------------------------------
\* Client and device together: the commands the client writes are processed
\* by the server, and the reply to STATUS? is the one get_status builds
\* ------------------------------------------------------------------------
\* run_server: each received line goes through process_command, in order
RECURSIVE Deliver(_, _)
Deliver(d, cmds) ==
    IF cmds = <<>> THEN d
    ELSE Deliver(process_command(d, Head(cmds)), Tail(cmds))

\* the step of the client and the server's processing of what it wrote
LinkCommit(w, o, d) ==
    /\ model' = w.model
    /\ network' = w.network
    /\ sent' = w.sent
    /\ published' = w.published
    /\ op' = o
    /\ device' = Deliver(d, w.sent)
    /\ UNCHANGED <<threads, reachable, hist, bus>>

\* the operation repeats the one of the step before
Again(o) ==
    [o EXCEPT !.again = (op.name = o.name /\ op.ch = o.ch
                         /\ op.active = o.active)]

\* Model.connect; the dial succeeds and the server's accept returns
LinkConnect ==
    /\ network.connection_state = "DISCONNECTED"
    /\ device.link = "none"
    /\ LinkCommit(ConnectAsync(ModelConnect(World), 0), Op("connect"),
                  [device EXCEPT !.link = "up", !.client_connected = TRUE,
                                 !.heartbeat = IF @ = "off" THEN "read" ELSE @])

\* the reply the server gives to the STATUS? of a poll iteration
StatusOf(d) == Deliver(d, <<WATCHDOG_RESET, QUERY_STATUS>>).response

\* what a poll iteration over a working link makes of the client
Polled(w, d) == PollIteration(w, "ok", "ok", Reply(StatusOf(d)))

\* one iteration of _poll_loop over a working link
LinkPoll ==
    /\ network.running /\ network.connection_state = "CONNECTED"
    /\ device.link = "up"
    /\ LinkCommit(Polled(World, device), PollOp(StatusOf(device)), device)

LinkSetChannelEnabled(ch, enabled) ==
    /\ network.connection_state = "CONNECTED"
    /\ LinkCommit(set_channel_enabled(World, ch, enabled, "ok"),
                  Again([Op("set_channel_enabled") EXCEPT
                            !.ch = ch, !.active = enabled]),
                  device)

LinkSetChannelFrequency(ch, hz) ==
    /\ network.connection_state = "CONNECTED"
    /\ LinkCommit(set_channel_frequency(World, ch, hz, "ok"),
                  [Op("set_channel_frequency") EXCEPT !.ch = ch], device)

LinkSetSource(source) ==
    /\ network.connection_state = "CONNECTED"
    /\ LinkCommit(set_source(World, source, "ok"), Op("set_source"), device)

LinkSetBroadcast(active) ==
    /\ network.connection_state = "CONNECTED"
    /\ LinkCommit(set_broadcast(World, active, "ok"),
                  [Op("set_broadcast") EXCEPT !.active = active], device)

LinkNext ==
    \/ LinkConnect
    \/ LinkPoll
    \/ \E ch \in ChannelIds, e \in BOOLEAN : LinkSetChannelEnabled(ch, e)
    \/ \E ch \in ChannelIds, hz \in DeviceFreqs :
           LinkSetChannelFrequency(ch, hz)
    \/ \E src \in Sources : LinkSetSource(src)
    \/ \E a \in BOOLEAN : LinkSetBroadcast(a)

LinkSpec == Init /\ [][LinkNext]_vars

\* Controller._on_broadcast_click over a working link
LinkBroadcastClick ==
    /\ network.connection_state = "CONNECTED"
    /\ LinkCommit(_on_broadcast_click(World, "ok"),
                  [Op("_on_broadcast_click") EXCEPT
                      !.active = (model.broadcast_state # "BROADCASTING")],
                  device)

\* the broadcast button, the source selector, the channel switches and the
\* poll loop over a working link
ArmNext ==
    \/ LinkConnect
    \/ LinkPoll
    \/ LinkBroadcastClick
    \/ \E src \in Sources : LinkSetSource(src)
    \/ \E ch \in ChannelIds, e \in BOOLEAN : LinkSetChannelEnabled(ch, e)

ArmSpec == Init /\ [][ArmNext]_vars

\* the step before was an iteration of _poll_loop whose status reply was
\* handed to _parse_and_publish_status
PollReconciled == op.name = "poll" /\ op.reconciled

\* a further iteration of _poll_loop would leave the client and the device
\* as they are: every later poll is reconciled to the same state
PollFixpoint ==
    /\ Polled(World, device).model = model
    /\ Polled(World, device).network = network
    /\ Deliver(device, Polled(World, device).sent) = device

\* ------------------------------------------------------------------------
\* Requests with valid and invalid arguments: the dispatcher and the REST
\* endpoint update_channel (gui/api.py)
\* ------------------------------------------------------------------------
\* the ids of Config.MESSAGES
ConfiguredMessages == 1..4

InvalidFrequency(hz) == hz < FREQ_MIN \/ hz > FREQ_MAX
InvalidChannel(ch) == ch \notin ChannelIds
InvalidMessage(id) == id \notin ConfiguredMessages

\* the arguments offered: a configured and an unknown channel, a frequency
\* inside the limits, one below and one above, a known and an unknown message
AnyChannels == ChannelIds \cup {NumChannels + 1}
AnyFreqs == {700000, 100000, 1800000}
AnyMessages == {1, 5}

\* ChannelUpdate: an absent field is the empty sequence
ChannelUpdate(enabled, frequency) ==
    [enabled |-> enabled, frequency |-> frequency]

ChannelUpdates ==
    {ChannelUpdate(e, f) : e \in {<<>>, <<TRUE>>, <<FALSE>>},
                           f \in {<<>>} \cup {<<hz>> : hz \in AnyFreqs}}

\* update_channel lines 152-158: the frequency of the request
UpdateFrequencyOf(w, channel_id, update, io) ==
    IF update.frequency = <<>> THEN w
    ELSE IF InvalidFrequency(update.frequency[1]) THEN w
    ELSE set_channel_frequency(w, channel_id, update.frequency[1], io)

\* update_channel (the channel id is checked against Config.NUM_CHANNELS)
update_channel(w, channel_id, update, io) ==
    IF channel_id < 1 \/ channel_id > NumChannels THEN w
    ELSE UpdateFrequencyOf(
             IF update.enabled = <<>> THEN w
             ELSE set_channel_enabled(w, channel_id, update.enabled[1], io),
             channel_id, update, io)

\* update_channel answers 404 or 400
Refused(channel_id, update) ==
    \/ channel_id < 1 \/ channel_id > NumChannels
    \/ update.frequency # <<>> /\ InvalidFrequency(update.frequency[1])

RequestMessage(id, io) ==
    /\ PendingRoom({"message"})
    /\ Commit(set_message(World, id, io),
              [Op("set_message") EXCEPT !.rejected = InvalidMessage(id)])

RequestFrequency(ch, hz, io) ==
    /\ PendingRoom({KeyFreq(ch)})
    /\ Commit(set_channel_frequency(World, ch, hz, io),
              [Op("set_channel_frequency") EXCEPT
                  !.ch = ch,
                  !.rejected = InvalidChannel(ch) \/ InvalidFrequency(hz)])

RequestEnabled(ch, enabled, io) ==
    /\ PendingRoom({KeyEnabled(ch)})
    /\ Commit(set_channel_enabled(World, ch, enabled, io),
              [Op("set_channel_enabled") EXCEPT
                  !.ch = ch, !.active = enabled,
                  !.rejected = InvalidChannel(ch)])

RestUpdateChannel(ch, update, io) ==
    /\ PendingRoom({KeyEnabled(ch), KeyFreq(ch)})
    /\ Commit(update_channel(World, ch, update, io),
              [Op("update_channel") EXCEPT
                  !.ch = ch, !.rejected = Refused(ch, update)])

RequestNext ==
    \/ \E k \in DialPlans : Connect(k)
    \/ \E plan \in PollPlans(FewReplies) : PollTick(plan)
    \/ \E id \in AnyMessages, io \in DispatchIo : RequestMessage(id, io)
    \/ \E ch \in AnyChannels, hz \in AnyFreqs, io \in DispatchIo :
           RequestFrequency(ch, hz, io)
    \/ \E ch \in AnyChannels, e \in BOOLEAN, io \in DispatchIo :
           RequestEnabled(ch, e, io)
    \/ \E ch \in AnyChannels, update \in ChannelUpdates, io \in DispatchIo :
           RestUpdateChannel(ch, update, io)

RequestSpec == Init /\ [][RequestNext]_vars

\* ------------------------------------------------------------------------
\* The frequency registers: CHn:FREQ / FREQ:CHn over the supported set
\* ------------------------------------------------------------------------
\* the frequencies written: 0, the limits, the frequencies of the tests and
\* FreqSamples + 1 frequencies FreqStep apart from FREQ_MIN on
FreqSamples == 117
FreqStep == 9973

SupportedFreqs ==
    {0, FREQ_MIN, FREQ_MAX, 531000, 700000, 900000}
    \cup {f \in {FREQ_MIN + k * FreqStep : k \in 0..FreqSamples} :
             f <= FREQ_MAX}

\* run_server: a frequency command is received and processed
WriteFrequency(ch, hz) ==
    /\ device.link = "up"
    /\ DevCommit(process_command(device, SET_FREQ(ch, hz)),
                 [Op("process_command") EXCEPT !.ch = ch])

PhaseNext ==
    \/ Accept
    \/ \E ch \in ChannelIds, hz \in SupportedFreqs : WriteFrequency(ch, hz)

PhaseSpec == Init /\ [][PhaseNext]_vars

\* ------------------------------------------------------------------------
\* Audio loading on the device: SOURCE:MSG, AUDIO:LOAD and the loader threads
\* ------------------------------------------------------------------------
\* loader threads alive at the same time in one behaviour
MaxLoaders == 2

\* message 1 has its file, the file of message 2 is missing, message 4 is not
\* in AUDIO_FILES; one path exists as written, one only in lower case
AudioCommands ==
    {SET_MESSAGE(id) : id \in {1, 2, 4}}
    \cup {AUDIO_LOAD(path) : path \in {"/root/alarm_fast.wav", "/ROOT/B.WAV"}}
    \cup {AUDIO_STATUS, QUERY_STATUS}

\* a loader thread has been started and has not finished
LoaderAlive(d) == d.starting + d.running > 0

\* the command selects a message whose audio file does not exist
FileMissing(d, cmd) ==
    /\ cmd.name = "SOURCE:MSG"
    /\ cmd.num \in DOMAIN d.audio_files
    /\ d.audio_files[cmd.num] \notin d.disk

\* run_server: one line about audio is received and processed
AudioCommand(cmd) ==
    /\ device.link = "up"
    /\ device.starting + device.running < MaxLoaders
    /\ DevCommit(process_command(device, cmd),
                 [Op("process_command") EXCEPT
                     !.active = LoaderAlive(device),
                     !.outcome = IF FileMissing(device, cmd) THEN "missing"
                                 ELSE ""])

\* _load_thread line 198: the thread runs and sets the flag
loader_begins(d) ==
    [d EXCEPT !.starting = @ - 1, !.running = @ + 1, !.audio_loading = TRUE]

\* _load_thread with the flag cleared at the end of the try block instead
\* of in a finally clause
loader_exits_without_finally(d, outcome) ==
    [d EXCEPT !.running = @ - 1,
              !.audio_loading = IF outcome \in {"ok", "nonzero"} THEN FALSE
                                ELSE @]

\* _load_thread lines 203-226: subprocess.run returns or raises; the branches
\* on its outcome print, and the finally clause clears the flag
loader_exits(d, outcome) ==
    [d EXCEPT !.running = @ - 1, !.audio_loading = FALSE]

\* returncode 0, another returncode, TimeoutExpired, another Exception
LoaderOutcomes == {"ok", "nonzero", "timeout", "error"}

LoaderBegin ==
    /\ device.starting > 0
    /\ DevCommit(loader_begins(device), Op("loader_begin"))

LoaderExit(outcome) ==
    /\ device.running > 0
    /\ DevCommit(loader_exits(device, outcome),
                 [Op("loader_exit") EXCEPT !.outcome = outcome])

AudioNext ==
    \/ Accept
    \/ \E cmd \in AudioCommands : AudioCommand(cmd)
    \/ LoaderBegin
    \/ \E outcome \in LoaderOutcomes : LoaderExit(outcome)

AudioSpec == Init /\ [][AudioNext]_vars

\* a started loader thread is scheduled (line 230), and subprocess.run
\* returns or raises within its timeout of 30 s (lines 204-209)
FairAudioSpec ==
    AudioSpec /\ WF_vars(LoaderBegin)
              /\ WF_vars(\E outcome \in LoaderOutcomes : LoaderExit(outcome))

\* ------------------------------------------------------------------------
\* The event bus: gui/event_bus.py, with threads publishing concurrently
\* ------------------------------------------------------------------------
\* _max_log_size (1000 in the code) and the publish calls of one behaviour
MaxLog == 1
MaxPublishes == 3

\* the connect thread publishes CONNECT_SUCCESS, the UI thread DISCONNECTED
PublishedBy(t) == IF t = 1 THEN "CONNECT_SUCCESS" ELSE "DISCONNECTED"

BusCommit(b, o) ==
    /\ bus' = b
    /\ op' = o
    /\ UNCHANGED <<model, network, sent, published, threads, reachable, hist,
                   device>>

BusOp(name, t) == [Op(name) EXCEPT !.thread = <<"bus", t>>]

\* list.remove(x)
RECURSIVE Without(_, _)
Without(s, x) ==
    IF s = <<>> THEN <<>>
    ELSE IF Head(s) = x THEN Tail(s)
    ELSE <<Head(s)>> \o Without(Tail(s), x)

\* the last n elements: s[-n:]
LastOf(s, n) == IF Len(s) <= n THEN s ELSE SubSeq(s, Len(s) - n + 1, Len(s))

\* EventBus.subscribe
subscribe(b, type, callback) ==
    IF callback \in Range(b.subscribers[type]) THEN b
    ELSE [b EXCEPT !.subscribers[type] = Append(@, callback)]

\* EventBus.unsubscribe
unsubscribe(b, type, callback) ==
    [b EXCEPT !.subscribers[type] = Without(@, callback)]

Subscribe(type, callback) ==
    /\ type \in BusTypes
    /\ BusCommit(subscribe(bus, type, callback), Op("subscribe"))

Unsubscribe(type, callback) ==
    /\ callback \in Range(bus.subscribers[type])
    /\ BusCommit(unsubscribe(bus, type, callback), Op("unsubscribe"))

\* publish line 144: self._event_log.append(event)
PubAppend(t, type) ==
    /\ bus.pub[t].pc = "idle"
    /\ type = PublishedBy(t)
    /\ Len(bus.order) < MaxPublishes
    /\ BusCommit([bus EXCEPT
                     !.event_log = Append(@, <<type, t>>),
                     !.order = Append(@, <<type, t>>),
                     !.pub[t].event = <<type, t>>,
                     !.pub[t].pc = "check"],
                 BusOp("publish_append", t))

\* line 145 and the right-hand side of line 146: the length is tested and
\* the slice is built
PubSlice(t) ==
    /\ bus.pub[t].pc = "check"
    /\ BusCommit(IF Len(bus.event_log) > MaxLog
                 THEN [bus EXCEPT !.pub[t].tmp = LastOf(bus.event_log, MaxLog),
                                  !.pub[t].pc = "assign"]
                 ELSE [bus EXCEPT !.pub[t].pc = "copy"],
                 BusOp("publish_slice", t))

\* line 146: the slice is assigned to self._event_log
PubAssign(t) ==
    /\ bus.pub[t].pc = "assign"
    /\ BusCommit([bus EXCEPT !.event_log = bus.pub[t].tmp,
                             !.pub[t].tmp = <<>>,
                             !.pub[t].pc = "copy"],
                 BusOp("publish_assign", t))

\* lines 149-150: the list of subscribers is copied under the lock
PubCopy(t) ==
    /\ bus.pub[t].pc = "copy"
    /\ BusCommit([bus EXCEPT
                     !.pub[t].todo = bus.subscribers[bus.pub[t].event[1]],
                     !.pub[t].at_call = bus.subscribers[bus.pub[t].event[1]],
                     !.pub[t].pc = "notify"],
                 BusOp("publish_copy", t))

\* the loop ending at the first callback that raises
notify_one_until_raise(p) ==
    [p EXCEPT !.calls = Append(@, Head(p.todo)),
              !.todo = IF Head(p.todo) \in Raising THEN <<>> ELSE Tail(@)]

\* lines 152-156, one iteration: the callback is called; an Exception it
\* raises is caught and printed
notify_one(p) ==
    [p EXCEPT !.calls = Append(@, Head(p.todo)), !.todo = Tail(@)]

PubCall(t) ==
    /\ bus.pub[t].pc = "notify"
    /\ bus.pub[t].todo # <<>>
    /\ BusCommit([bus EXCEPT !.pub[t] = notify_one(@)],
                 [BusOp("publish_call", t) EXCEPT
                     !.rejected = Head(bus.pub[t].todo) \in Raising])

\* publish returns
PubReturn(t) ==
    /\ bus.pub[t].pc = "notify"
    /\ bus.pub[t].todo = <<>>
    /\ BusCommit([bus EXCEPT !.pub[t] = IdlePublisher],
                 BusOp("publish_return", t))

BusNext ==
    \/ \E type \in BusTypes, h \in Handlers : Subscribe(type, h)
    \/ \E type \in BusTypes, h \in Handlers : Unsubscribe(type, h)
    \/ \E t \in Publishers, type \in BusTypes : PubAppend(t, type)
    \/ \E t \in Publishers : PubSlice(t)
    \/ \E t \in Publishers : PubAssign(t)
    \/ \E t \in Publishers : PubCopy(t)
    \/ \E t \in Publishers : PubCall(t)
    \/ \E t \in Publishers : PubReturn(t)

BusSpec == Init /\ [][BusNext]_vars

\* ------------------------------------------------------------------------
\* The exchange of send_command at the grain of its blocking calls: a query
\* holds self._lock from its sendall until its recv returns, and the socket
\* is closed by disconnect() and by _handle_connection_failure, neither of
\* which takes the lock (the redial that follows a failure is followed in
\* NetSpec)
\* ------------------------------------------------------------------------
\* program counters of the poll and heartbeat threads
\*   loop:     between two send_command calls of the loop
\*   query:    poll loop, WATCHDOG:RESET sent, STATUS? is next
\*   exchange: inside "with self._lock", query written, blocked in recv
\*   cut:      as exchange, on a socket another thread closed meanwhile
\*   failed:   heartbeat, send_command returned a falsy value
\*   delay:    in time.sleep(reconnect_delay);  done: the loop has ended
\* and of the UI thread: idle, or the source that set_source is about to send
InExchange == {"exchange", "cut"}

\* self._lock is free
LockFree == \A u \in ThreadIds : threads[u] \notin InExchange

\* self.socket.close() and self.socket = None while others are in recv
CloseSocket(thr) ==
    [u \in DOMAIN thr |-> IF thr[u] = "exchange" THEN "cut" ELSE thr[u]]

\* the query each loop sends and the reply the device gives to it
QueryOf(t) == IF t[1] = "hb" THEN QUERY_ID ELSE QUERY_STATUS
AnswerTo(t) == IF t[1] = "hb" THEN Reply(IdnReply) ELSE Reply(LiveStatus)

\* Model.connect with a dial that succeeds at once
ExchangeConnect ==
    /\ threads[<<"hb", 1>>] = "idle"
    /\ NetCommit(DialSucceeded(DialBegin(ModelConnect(World))),
                 [Op("connect") EXCEPT !.thread = Ui],
                 StartBackgroundThreads(threads, 1), reachable)

\* the loop condition of _poll_loop and _heartbeat_loop
LoopCondition(n) == n.running /\ n.connection_state = "CONNECTED"

\* while ... : the condition fails and the loop ends
LoopExit(t) ==
    /\ t[1] \in {"hb", "poll"}
    /\ threads[t] = "loop"
    /\ ~LoopCondition(network)
    /\ NetCommit(World, [Op("exit") EXCEPT !.thread = t],
                 [threads EXCEPT ![t] = "done"], reachable)

\* _poll_loop line 238: send_command(WATCHDOG_RESET), a write under the lock
PollReset(t, io) ==
    /\ t[1] = "poll"
    /\ threads[t] = "loop"
    /\ LoopCondition(network)
    /\ LockFree
    /\ NetCommit(SendCommand(World, WATCHDOG_RESET, io),
                 [Op("reset") EXCEPT !.thread = t],
                 [threads EXCEPT ![t] = "query"], reachable)

\* where the thread is once its query could not be written
Unwritten(t) == IF t[1] = "hb" THEN "failed" ELSE "loop"

\* send_command of a query up to its recv: guard, lock, sendall
ExchangeBegin(t, io) ==
    /\ \/ t[1] = "hb" /\ threads[t] = "loop" /\ LoopCondition(network)
       \/ t[1] = "poll" /\ threads[t] = "query"
    /\ LockFree
    /\ NetCommit(IF QueryWritten(World, io)
                 THEN Sendall(World, QueryOf(t), "ok")
                 ELSE QueryWorld(World, QueryOf(t), io, RecvError),
                 [Op("sendall") EXCEPT !.thread = t,
                                       !.ok = QueryWritten(World, io),
                                       !.outcome = IF SendGuard(network) THEN io
                                                   ELSE "guard"],
                 [threads EXCEPT ![t] = IF QueryWritten(World, io)
                                        THEN "exchange" ELSE Unwritten(t)],
                 reachable)

\* the text send_command returns after recv
Returned(rcv) == IF rcv.kind = "reply" THEN rcv.text ELSE <<>>

\* what the loop does with the value send_command returned
LoopResult(t, w, response) ==
    IF t[1] = "poll" THEN Reconcile(w, response)
    ELSE IF response # <<>> THEN HeartbeatOk(w)
    ELSE w

\* recv returns or raises, the lock is released and the loop takes the
\* result; on a socket closed under the recv any outcome is possible, the
\* reply included (it was received just before the close and the loop
\* handles it after)
ExchangeEnd(t, rcv) ==
    /\ threads[t] \in InExchange
    /\ threads[t] = "exchange" => rcv \in {AnswerTo(t), RecvTimeout}
    /\ NetCommit(LoopResult(t, Recv(World, rcv), Returned(rcv)),
                 [Op("recv") EXCEPT !.thread = t, !.clean = (threads[t] = "exchange"),
                                    !.outcome = rcv.kind],
                 [threads EXCEPT ![t] =
                     IF t[1] = "hb" /\ Returned(rcv) = <<>> THEN "failed"
                     ELSE "loop"],
                 reachable)

\* _heartbeat_loop line 260: _check_heartbeat_timeout after a falsy reply;
\* _handle_connection_failure closes the socket without the lock
ExchangeCheck(t) ==
    /\ threads[t] = "failed"
    /\ NetCommit(CheckHeartbeatTimeout(World),
                 [Op("check") EXCEPT !.thread = t,
                                     !.expired = HeartbeatExpired(network)],
                 IF "RECONNECT_ATTEMPT" \in
                        EventTypes(CheckHeartbeatTimeout(World).published)
                 THEN CloseSocket([threads EXCEPT ![t] = "delay"])
                 ELSE [threads EXCEPT ![t] = "loop"],
                 reachable)

\* Model.disconnect: set_broadcast(False) goes through send_command and so
\* waits for the lock, NetworkManager.disconnect does not
ExchangeDisconnect(io) ==
    /\ threads[Ui] = "idle"
    /\ network.connection_state # "DISCONNECTED"
    /\ model.device_state.broadcasting => LockFree
    /\ NetCommit(ModelDisconnect(World, io),
                 [Op("disconnect") EXCEPT !.thread = Ui],
                 CloseSocket(threads), reachable)

\* Model.set_source line 548: the pending entry is recorded, then
\* send_command waits for the lock (the pc of the UI thread is the source
\* it is about to send)
ExchangeSetSource(source) ==
    /\ threads[Ui] = "idle"
    /\ NetCommit(PutPending(World, "source", source),
                 [Op("set_source") EXCEPT !.thread = Ui],
                 [threads EXCEPT ![Ui] = source], reachable)

\* Model.set_source lines 549-552: the command is written under the lock
\* and SOURCE_CHANGED is published
ExchangeSendSource(io) ==
    /\ threads[Ui] \in Sources
    /\ LockFree
    /\ NetCommit(Publish(SendCommand(World, SET_SOURCE(threads[Ui]), io),
                         Ev("SOURCE_CHANGED")),
                 [Op("send_source") EXCEPT !.thread = Ui],
                 [threads EXCEPT ![Ui] = "idle"], reachable)

ExchangeNext ==
    \/ ExchangeConnect
    \/ \E t \in ThreadIds : LoopExit(t)
    \/ \E t \in ThreadIds, io \in IoOutcomes : PollReset(t, io)
    \/ \E t \in ThreadIds, io \in IoOutcomes : ExchangeBegin(t, io)
    \/ \E t \in ThreadIds, rcv \in {Reply(IdnReply), Reply(LiveStatus),
                                    RecvTimeout, RecvError} : ExchangeEnd(t, rcv)
    \/ \E t \in ThreadIds : ExchangeCheck(t)
    \/ \E io \in IoOutcomes : ExchangeDisconnect(io)
    \/ \E source \in Sources : ExchangeSetSource(source)
    \/ \E io \in IoOutcomes : ExchangeSendSource(io)
    \/ Tick

ExchangeSpec == Init /\ [][ExchangeNext]_vars

\* ------------------------------------------------------------------------
\* Queries and replies on one connection: the client writes command lines,
\* run_server receives them in chunks of whole lines and answers the lines
\* that hold a "?", the client reads after it wrote a command holding a "?"
\* ------------------------------------------------------------------------
MaxWire == 2
MaxQueries == 2

\* "?" in line (am_scpi_server.py 456) and "?" in command (model.py 359)
IsQuery(cmd) ==
    cmd.name \in {"*IDN?", "STATUS?", "AUDIO:STATUS?", "MEAS?"}

\* an unknown query and the commands of a client
ReplyCommands ==
    {QUERY_ID, QUERY_STATUS, AUDIO_STATUS, Cmd("MEAS?"), WATCHDOG_RESET,
     SET_BROADCAST("ON"), SET_SOURCE("ADC")}

\* the number of lines of a chunk that hold a "?"
RECURSIVE QueryCount(_)
QueryCount(lines) ==
    IF lines = <<>> THEN 0
    ELSE (IF IsQuery(Head(lines)) THEN 1 ELSE 0) + QueryCount(Tail(lines))

\* conn.send((response + "\n").encode()) for a response to a line with "?"
SendReply(d, line) ==
    [d EXCEPT !.outbox = Append(@, d.response), !.replies = @ + 1,
              !.asked = Append(@, line)]

\* a server that answers every line
ServeLine_answers_all(d, line) == SendReply(process_command(d, line), line)

\* run_server lines 453-458: one line of the received data
ServeLine(d, line) ==
    IF IsQuery(line) THEN SendReply(process_command(d, line), line)
    ELSE process_command(d, line)

\* run_server lines 448-458: for line in data.split('\n')
RECURSIVE Serve(_, _)
Serve(d, lines) ==
    IF lines = <<>> THEN d ELSE Serve(ServeLine(d, Head(lines)), Tail(lines))

\* the chunk is received (its lines with "?" are counted) and served
Received(d, lines) ==
    [Serve(d, lines) EXCEPT !.queries = @ + QueryCount(lines)]

ReplyCommit(w, o, d, wire, ui) ==
    /\ model' = w.model
    /\ network' = w.network
    /\ published' = w.published
    /\ sent' = wire
    /\ op' = o
    /\ device' = d
    /\ threads' = [threads EXCEPT ![Ui] = ui]
    /\ UNCHANGED <<reachable, hist, bus>>

\* Model.connect; the dial succeeds and the server's accept returns
ReplyConnect ==
    /\ network.connection_state = "DISCONNECTED"
    /\ device.link = "none"
    /\ ReplyCommit(ConnectAsync(ModelConnect(World), 0), Op("connect"),
                   [device EXCEPT !.link = "up", !.client_connected = TRUE,
                                  !.queries = 0, !.replies = 0, !.outbox = <<>>,
                                  !.asked = <<>>],
                   <<>>, "idle")

\* send_command up to its recv: the command line is written
ReplyWrite(cmd, io) ==
    /\ threads[Ui] = "idle"
    /\ SendGuard(network)
    /\ Len(sent) < MaxWire
    /\ IsQuery(cmd) => device.queries + QueryCount(sent) < MaxQueries
    /\ ReplyCommit(Sendall(World, cmd, io),
                   [Op("send_command") EXCEPT !.thread = Ui, !.ok = (io = "ok"),
                                              !.active = IsQuery(cmd)],
                   [device EXCEPT !.awaited = cmd],
                   sent \o Sendall(World, cmd, io).sent,
                   IF io = "ok" /\ IsQuery(cmd) THEN "recv" ELSE "idle")

\* conn.recv(1024) returns the first n lines the client wrote, each goes
\* through process_command and the lines with "?" are answered
ServerReceive(n) ==
    /\ device.link = "up"
    /\ n \in 1..Len(sent)
    /\ ReplyCommit([World EXCEPT !.published = published],
                   [Op("run_server") EXCEPT !.e2e = QueryCount(SubSeq(sent, 1, n))],
                   Received(device, SubSeq(sent, 1, n)),
                   SubSeq(sent, n + 1, Len(sent)), threads[Ui])

\* socket.recv(4096) of the client returns what the server sent so far
ReplyRead ==
    /\ threads[Ui] = "recv"
    /\ device.outbox # <<>>
    /\ ReplyCommit(World,
                   [Op("recv") EXCEPT !.thread = Ui, !.ok = TRUE,
                                      !.clean = (device.asked = <<device.awaited>>)],
                   [device EXCEPT !.outbox = <<>>, !.asked = <<>>], sent, "idle")

\* socket.recv(4096) of the client times out
ReplyTimeout ==
    /\ threads[Ui] = "recv"
    /\ device.outbox = <<>>
    /\ ReplyCommit(Recv(World, RecvTimeout), [Op("recv") EXCEPT !.thread = Ui],
                   device, sent, "idle")

\* Model.disconnect; the server's recv returns no data and it closes
ReplyDisconnect ==
    /\ threads[Ui] = "idle"
    /\ network.connection_state = "CONNECTED"
    /\ ReplyCommit(ModelDisconnect(World, "error"), Op("disconnect"),
                   [Received(device, sent) EXCEPT !.link = "none",
                                               !.client_connected = FALSE],
                   <<>>, "idle")

ReplyNext ==
    \/ ReplyConnect
    \/ \E cmd \in ReplyCommands, io \in IoOutcomes : ReplyWrite(cmd, io)
    \/ \E n \in 1..MaxWire : ServerReceive(n)
    \/ ReplyRead
    \/ ReplyTimeout
    \/ ReplyDisconnect

ReplySpec == Init /\ [][ReplyNext]_vars

\* ------------------------------------------------------------------------
\* The register file under the commands that write it
\* ------------------------------------------------------------------------
\* channel numbers no CH<n> prefix of process_command matches
NoChannels == {13}

\* the register-writing commands; message 2 has no file and message 4 is
\* not configured, so no loader is started (loads are followed in AudioSpec)
RegisterCommands ==
    {SET_BROADCAST(s) : s \in {"ON", "OFF"}}
    \cup {SET_SOURCE(s) : s \in Sources}
    \cup {SET_MESSAGE(id) : id \in {2, 4}}
    \cup {SET_OUTPUT(ch, s) : ch \in ChannelIds \cup NoChannels, s \in {"ON", "OFF"}}
    \cup {SET_FREQ(ch, hz) : ch \in ChannelIds \cup NoChannels, hz \in DeviceFreqs}

\* run_server: one register-writing line is received and processed
RegisterCommand(cmd) ==
    /\ device.link = "up"
    /\ DevCommit(process_command(device, cmd),
                 [Op("process_command") EXCEPT !.via = cmd.name, !.ch = cmd.ch,
                                               !.active = (cmd.str = "ON")])

RegisterNext ==
    \/ Accept
    \/ \E cmd \in RegisterCommands : RegisterCommand(cmd)

RegisterSpec == Init /\ [][RegisterNext]_vars

\* ------------------------------------------------------------------------
\* The connection state of the NetworkManager and its copy in the Model at
\* the grain of statements: each thread assigns connection_state and then
\* publishes the event whose handler updates the Model's copy
\* ------------------------------------------------------------------------
\* the pc of a thread that has assigned connection_state and is about to
\* publish is the event it will publish ("max_retries": DISCONNECTED with
\* that reason); "retry": inside _handle_connection_failure, the retry
\* branch chosen and the attempt not yet counted
PendingEvents ==
    {"CONNECT_SUCCESS", "CONNECT_FAILED", "RECONNECT_ATTEMPT", "DISCONNECTED",
     "max_retries"}

\* _connect_async lines 191-193: the assignments after socket.connect
AssignDialOk(w) ==
    [w EXCEPT !.network.socket = "connected",
              !.network.connection_state = "CONNECTED",
              !.network.reconnect_count = 0,
              !.network.heartbeat_age = 0]

\* _handle_connection_failure: the event its branch publishes
FailureEvent(n) ==
    IF ~n.auto_reconnect THEN "DISCONNECTED"
    ELSE IF n.reconnect_count >= MAX_RECONNECT_ATTEMPTS THEN "max_retries"
    ELSE "RECONNECT_ATTEMPT"

\* _handle_connection_failure lines 280-291: _running is cleared and the
\* branch is chosen; the two terminal branches assign DISCONNECTED
DecideFailure(w) ==
    IF FailureEvent(w.network) = "RECONNECT_ATTEMPT"
    THEN [w EXCEPT !.network.running = FALSE]
    ELSE [w EXCEPT !.network.running = FALSE,
                   !.network.connection_state = "DISCONNECTED"]

\* where the thread is after DecideFailure: about to publish DISCONNECTED,
\* or at "retry", before line 293
Decided(n) ==
    IF FailureEvent(n) = "RECONNECT_ATTEMPT" THEN "retry" ELSE FailureEvent(n)

\* _handle_connection_failure lines 293-294: the retry branch counts the
\* attempt and assigns RECONNECTING
AssignRetry(w) ==
    [w EXCEPT !.network.reconnect_count = @ + 1,
              !.network.connection_state = "RECONNECTING"]

\* NetworkManager.disconnect lines 332-342: the assignments
AssignDisconnect(w) ==
    [w EXCEPT !.network.running = FALSE,
              !.network.auto_reconnect = FALSE,
              !.network.socket = "None",
              !.network.connection_state = "DISCONNECTED"]

\* the event a thread at pc publishes
PendingEvent(w, pc) ==
    CASE pc = "RECONNECT_ATTEMPT" -> EvAttempt(w.network.reconnect_count)
      [] pc = "max_retries" -> EvReason("DISCONNECTED", "max_retries")
      [] pc = "CONNECT_FAILED" -> EvReason("CONNECT_FAILED", "timeout")
      [] OTHER -> Ev(pc)

\* event_bus.publish by a thread at pc and the statements up to the next
\* assignment of connection_state or the next blocking call
Published(w, pc) ==
    CASE pc = "CONNECT_SUCCESS" ->
            [Publish(w, PendingEvent(w, pc)) EXCEPT !.network.running = TRUE]
      [] pc = "CONNECT_FAILED" -> DecideFailure(Publish(w, PendingEvent(w, pc)))
      [] pc = "RECONNECT_ATTEMPT" ->
            [Publish(w, PendingEvent(w, pc)) EXCEPT !.network.socket = "None"]
      [] OTHER -> Publish(w, PendingEvent(w, pc))

\* where the thread is after that
PublishedAt(t, w, pc) ==
    CASE pc = "CONNECT_FAILED" -> Decided(w.network)
      [] pc = "RECONNECT_ATTEMPT" -> "delay"
      [] t = Ui -> "idle"
      [] OTHER -> After(t)

\* Model.connect; the connect thread runs up to socket.connect
MirrorConnect ==
    /\ threads[Ui] = "idle"
    /\ network.connection_state = "DISCONNECTED"
    /\ hist.connects < MaxConnects
    /\ NetCommit(DialBegin(ModelConnect(World)),
                 [Op("connect") EXCEPT !.thread = Ui],
                 [threads EXCEPT ![<<"conn", hist.connects + 1>>] = "dial"],
                 reachable)

\* socket.connect returns or raises and connection_state is assigned
MirrorDial(t, ok) ==
    /\ threads[t] = "dial"
    /\ ok => hist.sessions < MaxSessions
    /\ NetCommit(IF ok THEN AssignDialOk(World)
                 ELSE [World EXCEPT !.network.connection_state = "ERROR"],
                 [Op("dial") EXCEPT !.thread = t, !.ok = ok],
                 [threads EXCEPT ![t] = IF ok THEN "CONNECT_SUCCESS"
                                        ELSE "CONNECT_FAILED"],
                 reachable)

\* the thread publishes its event
MirrorPublish(t) ==
    /\ threads[t] \in PendingEvents
    /\ NetCommit(Published(World, threads[t]),
                 [Op("publish") EXCEPT !.thread = t, !.via = threads[t]],
                 IF threads[t] = "CONNECT_SUCCESS"
                 THEN StartBackgroundThreads(
                          [threads EXCEPT ![t] = After(t)], hist.sessions + 1)
                 ELSE [threads EXCEPT ![t] = PublishedAt(t, World, threads[t])],
                 reachable)

\* time.sleep(reconnect_delay) ends: _connect_async up to socket.connect
MirrorWake(t) ==
    /\ threads[t] = "delay"
    /\ NetCommit(DialBegin(World), [Op("wake") EXCEPT !.thread = t],
                 [threads EXCEPT ![t] = "dial"], reachable)

\* _heartbeat_loop: the loop condition holds
MirrorEnter(t) ==
    /\ t[1] = "hb" /\ threads[t] = "loop"
    /\ LoopCondition(network)
    /\ NetCommit(World, [Op("hb_enter") EXCEPT !.thread = t],
                 [threads EXCEPT ![t] = "send"], reachable)

\* _heartbeat_loop lines 255-258: the device answered *IDN?
MirrorHeartbeatOk(t) ==
    /\ threads[t] = "send"
    /\ SendGuard(network)
    /\ NetCommit(HeartbeatOk(World),
                 [Op("heartbeat") EXCEPT !.thread = t, !.ok = TRUE],
                 [threads EXCEPT ![t] = "loop"], reachable)

\* _heartbeat_loop: send_command returned nothing and the heartbeat has
\* timed out; DEVICE_HEARTBEAT_LOST is published and
\* _handle_connection_failure chooses its branch
MirrorHeartbeatLost(t) ==
    /\ threads[t] = "send"
    /\ HeartbeatExpired(network)
    /\ NetCommit(DecideFailure(Publish(World, Ev("DEVICE_HEARTBEAT_LOST"))),
                 [Op("heartbeat") EXCEPT !.thread = t, !.expired = TRUE],
                 [threads EXCEPT ![t] = Decided(network)], reachable)

\* _handle_connection_failure lines 293-294 by a thread on the retry branch
MirrorRetry(t) ==
    /\ threads[t] = "retry"
    /\ NetCommit(AssignRetry(World), [Op("retry") EXCEPT !.thread = t],
                 [threads EXCEPT ![t] = "RECONNECT_ATTEMPT"], reachable)

\* Controller._on_connect_click: is_connected() holds
MirrorClick ==
    /\ threads[Ui] = "idle"
    /\ network.connection_state = "CONNECTED"
    /\ NetCommit(World, [Op("click") EXCEPT !.thread = Ui],
                 [threads EXCEPT ![Ui] = "disconnect"], reachable)

\* Model.disconnect up to the publish of NetworkManager.disconnect (the
\* confirmed state is not broadcasting)
MirrorDisconnect ==
    /\ threads[Ui] = "disconnect"
    /\ NetCommit(AssignDisconnect(World),
                 [Op("disconnect") EXCEPT !.thread = Ui],
                 [threads EXCEPT ![Ui] = "DISCONNECTED"], reachable)

\* a loop finds its condition false and ends
MirrorExit(t) ==
    /\ t[1] \in {"hb", "poll"} /\ threads[t] = "loop"
    /\ ~LoopCondition(network)
    /\ NetCommit(World, [Op("exit") EXCEPT !.thread = t],
                 [threads EXCEPT ![t] = "done"], reachable)

MirrorNext ==
    \/ MirrorConnect
    \/ \E t \in ThreadIds, ok \in BOOLEAN : MirrorDial(t, ok)
    \/ \E t \in ThreadIds : MirrorPublish(t)
    \/ \E t \in ThreadIds : MirrorWake(t)
    \/ \E t \in ThreadIds : MirrorEnter(t)
    \/ \E t \in ThreadIds : MirrorHeartbeatOk(t)
    \/ \E t \in ThreadIds : MirrorHeartbeatLost(t)
    \/ \E t \in ThreadIds : MirrorRetry(t)
    \/ MirrorClick
    \/ MirrorDisconnect
    \/ \E t \in ThreadIds : MirrorExit(t)
    \/ Tick

MirrorSpec == Init /\ [][MirrorNext]_vars

\* ------------------------------------------------------------------------
\* The two locks: NetworkManager._lock around the exchange of send_command
\* and EventBus._lock around the copy of the subscriber list. The pc of a
\* thread says which locks it holds and which one it is waiting for:
\*   lock_wait                     at "with self._lock" of send_command
\*   io                            inside sendall / recv
\*   fail_wait, fail_copy, fail_notify
\*                                 publish of COMMAND_TIMEOUT / COMMAND_FAILED
\*                                 from the except clauses
\*   pub_wait, pub_copy, pub_notify
\*                                 publish of the caller's event after
\*                                 send_command has returned
\*   nested_wait, nested_copy, nested_notify
\*                                 publish from inside a handler
\* (x_wait: at "with self._lock" of publish; x_copy: inside it; x_notify:
\* calling the subscribers)
\* ------------------------------------------------------------------------
LockThreads == {Ui, <<"poll", 1>>, <<"hb", 1>>}

\* where a thread is between two calls
Home(t) == IF t = Ui THEN "idle" ELSE "loop"

\* publish lines 149-150 with the subscribers called inside the with block
BusHolding_through_callbacks ==
    {"fail_copy", "pub_copy", "nested_copy",
     "fail_notify", "pub_notify", "nested_wait", "nested_notify"}

\* publish lines 149-150: the lock is held for the copy only
BusHolding == {"fail_copy", "pub_copy", "nested_copy"}

\* send_command lines 351-374: the with block, the except clauses included
TransportHolding == {"io", "fail_wait", "fail_copy", "fail_notify"}

BusWaiting == {"fail_wait", "pub_wait", "nested_wait"}
TransportWaiting == {"lock_wait"}

\* the threads whose pc is in pcs
Holders(pcs) == {t \in LockThreads : threads[t] \in pcs}

\* the stages of one publish
CopyStage(pc) ==
    CASE pc = "fail_wait" -> "fail_copy"
      [] pc = "pub_wait" -> "pub_copy"
      [] pc = "nested_wait" -> "nested_copy"

NotifyStage(pc) ==
    CASE pc = "fail_copy" -> "fail_notify"
      [] pc = "pub_copy" -> "pub_notify"
      [] pc = "nested_copy" -> "nested_notify"

LockStep(t, name, pc) ==
    NetCommit(World, [Op(name) EXCEPT !.thread = t],
              [threads EXCEPT ![t] = pc], reachable)

\* send_command line 348: the guard passes
LockCall(t) ==
    /\ t \in LockThreads
    /\ threads[t] = Home(t)
    /\ SendGuard(network)
    /\ LockStep(t, "send_command", "lock_wait")

\* line 351: the transport lock is acquired
LockAcquire(t) ==
    /\ threads[t] \in TransportWaiting
    /\ Holders(TransportHolding) = {}
    /\ LockStep(t, "acquire_transport", "io")

\* lines 353-365: the exchange succeeds, the lock is released and the
\* caller goes on to publish its own event
LockReturn(t) ==
    /\ threads[t] = "io"
    /\ LockStep(t, "return", "pub_wait")

\* lines 367-373: sendall or recv raises, the except clause publishes
LockRaise(t, io) ==
    /\ threads[t] = "io"
    /\ io \in {"timeout", "error"}
    /\ NetCommit(World, [Op("raise") EXCEPT !.thread = t, !.outcome = io],
                 [threads EXCEPT ![t] = "fail_wait"], reachable)

\* publish line 149: the bus lock is acquired
BusAcquire(t) ==
    /\ t \in LockThreads
    /\ threads[t] \in BusWaiting
    /\ Holders(BusHolding) = {}
    /\ LockStep(t, "acquire_bus", CopyStage(threads[t]))

\* publish line 150 and the end of the with block
BusRelease(t) ==
    /\ threads[t] \in {"fail_copy", "pub_copy", "nested_copy"}
    /\ LockStep(t, "release_bus", NotifyStage(threads[t]))

\* COMMAND_TIMEOUT and COMMAND_FAILED have no subscriber; send_command
\* returns None and the transport lock is released. The poll and heartbeat
\* loops publish nothing then, Model.set_source publishes SOURCE_CHANGED
FailReturn(t) ==
    /\ threads[t] = "fail_notify"
    /\ LockStep(t, "return_none", IF t = Ui THEN "pub_wait" ELSE Home(t))

\* lines 152-156 for DEVICE_STATE_UPDATED: _on_device_state_updated sees an
\* edge of broadcasting and publishes BROADCAST_STARTED / BROADCAST_STOPPED
NestedPublish(t) ==
    /\ t[1] = "poll"
    /\ threads[t] = "pub_notify"
    /\ LockStep(t, "nested_publish", "nested_wait")

\* lines 152-156: the subscribers return
NotifyReturn(t) ==
    /\ threads[t] \in {"pub_notify", "nested_notify"}
    /\ LockStep(t, "notify_return", Home(t))

LockNext ==
    \/ ExchangeConnect
    \/ \E t \in ThreadIds : LockCall(t)
    \/ \E t \in ThreadIds : LockAcquire(t)
    \/ \E t \in ThreadIds : LockReturn(t)
    \/ \E t \in ThreadIds, io \in IoOutcomes \ {"ok"} : LockRaise(t, io)
    \/ \E t \in ThreadIds : BusAcquire(t)
    \/ \E t \in ThreadIds : BusRelease(t)
    \/ \E t \in ThreadIds : FailReturn(t)
    \/ \E t \in ThreadIds : NestedPublish(t)
    \/ \E t \in ThreadIds : NotifyReturn(t)

LockSpec == Init /\ [][LockNext]_vars
\* ------------------------------------------------------------------------
\* Properties
\* ------------------------------------------------------------------------
\* the step was a request to start broadcasting
StartRequested(o) ==
    o.name \in {"set_broadcast", "_on_broadcast_click"} /\ o.active

\* C1: after a poll iteration reconciled a reply that reports
\* watchdog_triggered=1, the watchdog state is TRIGGERED and the broadcast
\* state is IDLE
C1_TripForcesIdle ==
    (op.name = "poll" /\ op.reconciled /\ op.trig)
        => /\ model.watchdog_state = "TRIGGERED"
           /\ model.broadcast_state = "IDLE"

\* C2: a request to start broadcasting while the watchdog is tripped is
\* refused: nothing is written to the device, the broadcast state and the
\* device state stay as they were, and exactly one ERROR_OCCURRED is published
C2_StartRefusedWhenTripped ==
    [][(StartRequested(op') /\ model.device_state.watchdog_triggered)
          => /\ sent' = <<>>
             /\ model'.broadcast_state = model.broadcast_state
             /\ model'.device_state = model.device_state
             /\ published' = <<Ev("ERROR_OCCURRED")>>]_vars

C2_Witness ==
    /\ StartRequested(op)
    /\ model.device_state.watchdog_triggered
    /\ network.connection_state = "CONNECTED"
    /\ published = <<Ev("ERROR_OCCURRED")>>

\* C3: only a reconciled reply that reports broadcasting=1 makes the model
\* BROADCASTING; an accepted start request only moves it to ARMING, publishes
\* BROADCAST_ARMING and leaves the device state alone
C3_BroadcastingOnlyConfirmed ==
    [][/\ (\/ (model'.broadcast_state = "BROADCASTING"
                  /\ model.broadcast_state # "BROADCASTING")
           \/ (model'.device_state.broadcasting
                  /\ ~model.device_state.broadcasting))
          => (op'.name = "poll" /\ op'.reconciled /\ op'.bcast)
       /\ (StartRequested(op') /\ ~model.device_state.watchdog_triggered)
          => /\ model'.broadcast_state = "ARMING"
             /\ "BROADCAST_ARMING" \in EventTypes(published')
             /\ model'.device_state = model.device_state]_vars

C3_Witness ==
    /\ StartRequested(op)
    /\ model.broadcast_state = "ARMING"
    /\ sent = <<SET_BROADCAST("ON")>>
    /\ ~model.device_state.broadcasting

\* the dispatcher calls and the UI callbacks that wrap them
DispatcherOps ==
    {"set_source", "set_message", "set_channel_frequency",
     "set_channel_enabled", "set_broadcast", "_on_channel_enable",
     "_on_freq_change", "_on_enable_n_channels"}

\* C4: no dispatcher request changes the confirmed device state
C4_DispatcherLeavesDeviceState ==
    [][op'.name \in DispatcherOps
          => model'.device_state = model.device_state]_vars

\* C5: a poll iteration that writes STATUS? has written WATCHDOG:RESET just
\* before it: the two go out as a pair, in this order
C5_ResetPrecedesStatus ==
    (op.name = "poll" /\ QUERY_STATUS \in Range(sent))
        => sent = <<WATCHDOG_RESET, QUERY_STATUS>>

\* C6: once the controller is silent (hung with the connection open, or the
\* link lost) while the RF output is enabled, the device disables the output
C6_SilenceStopsOutput ==
    (RfOn(device) /\ device.link \in {"hung", "lost"}) ~> ~RfOn(device)

\* a reconnect thread is waiting out its delay or dialling
Retrying(t) == threads[t] \in {"delay", "dial", "orphan", "closed"}

\* C7: without a successful dial in between there are at most
\* MAX_RECONNECT_ATTEMPTS reconnect attempts and one terminal DISCONNECTED
\* event, after which the connection is DISCONNECTED and no thread is
\* retrying
C7_BoundedRetryOneTerminal ==
    /\ hist.attempts <= MAX_RECONNECT_ATTEMPTS
    /\ hist.terminals <= 1
    /\ hist.terminals = 1
          => /\ network.connection_state = "DISCONNECTED"
             /\ \A t \in ThreadIds : ~Retrying(t)

\* C8: after disconnect() returned and until the next connect(), the
\* connection stays DISCONNECTED and no RECONNECT_ATTEMPT or CONNECT_SUCCESS
\* is published
C8_DisconnectIsFinal ==
    hist.down
        => /\ network.connection_state = "DISCONNECTED"
           /\ "RECONNECT_ATTEMPT" \notin EventTypes(published)
           /\ "CONNECT_SUCCESS" \notin EventTypes(published)

\* C9: a heartbeat iteration that runs while CONNECTED, gets no reply and
\* finds the last heartbeat older than HEARTBEAT_TIMEOUT publishes
\* DEVICE_HEARTBEAT_LOST and leaves CONNECTED for RECONNECTING or
\* DISCONNECTED
C9_HeartbeatLossLeavesConnected ==
    [][(/\ op'.name = "heartbeat"
        /\ network.connection_state = "CONNECTED"
        /\ HeartbeatExpired(network)
        /\ "DEVICE_HEARTBEAT" \notin EventTypes(published'))
          => /\ "DEVICE_HEARTBEAT_LOST" \in EventTypes(published')
             /\ network'.connection_state \in {"RECONNECTING", "DISCONNECTED"}]_vars

C9_Witness ==
    /\ op.name = "heartbeat" /\ op.connected /\ op.expired
    /\ "DEVICE_HEARTBEAT_LOST" \in EventTypes(published)
    /\ network.connection_state = "RECONNECTING"

\* C10: a successful dial sets CONNECTED, resets the retry counter,
\* publishes CONNECT_SUCCESS once and starts a poll and a heartbeat loop;
\* while RECONNECTING with the device reachable, the supervisor gets back to
\* CONNECTED (unless the device goes away again or the user disconnects)
C10_DialSuccessAndRecovery ==
    /\ [][(op'.name = "dial" /\ op'.ok)
             => /\ network'.connection_state = "CONNECTED"
                /\ network'.reconnect_count = 0
                /\ CountType(published', "CONNECT_SUCCESS") = 1
                /\ network'.running
                /\ threads'[<<"hb", hist'.sessions>>] = "loop"
                /\ threads'[<<"poll", hist'.sessions>>] = "loop"]_vars
    /\ (network.connection_state = "RECONNECTING" /\ reachable)
          ~> (network.connection_state = "CONNECTED" \/ ~reachable \/ hist.down)

C10_Witness ==
    /\ op.name = "dial" /\ op.ok /\ op.thread[1] = "hb"
    /\ network.connection_state = "CONNECTED"
    /\ network.reconnect_count = 0
    /\ hist.sessions = 2

\* the transitions of the connection state machine
ListedTransitions ==
    {<<"DISCONNECTED", "CONNECTING">>, <<"CONNECTING", "CONNECTED">>,
     <<"CONNECTING", "ERROR">>, <<"CONNECTED", "RECONNECTING">>,
     <<"RECONNECTING", "CONNECTED">>, <<"RECONNECTING", "DISCONNECTED">>}

\* connection_state may go from a to b in a step that performed o
Listed(a, b, o) ==
    \/ a = b
    \/ <<a, b>> \in ListedTransitions
    \/ b = "DISCONNECTED" /\ o.name = "disconnect"

\* C11: every change of NetworkManager.connection_state is one of the listed
\* transitions or a transition to DISCONNECTED made by disconnect()
C11_OnlyListedTransitions ==
    [][IF op'.via = ""
       THEN Listed(network.connection_state, network'.connection_state, op')
       ELSE /\ Listed(network.connection_state, op'.via, op')
            /\ Listed(op'.via, network'.connection_state, op')]_vars

\* C12: watchdog_state leaves TRIGGERED (for OK) only by reset_watchdog(),
\* never by a reconciled poll, and becomes DISABLED only by
\* set_watchdog_enabled(False)
C12_TriggeredLatched ==
    [][/\ (model.watchdog_state = "TRIGGERED"
               /\ model'.watchdog_state # "TRIGGERED")
          => (op'.name = "reset_watchdog" /\ model'.watchdog_state = "OK")
       /\ (model.watchdog_state # "DISABLED"
               /\ model'.watchdog_state = "DISABLED")
          => (op'.name = "set_watchdog_enabled" /\ ~op'.active)]_vars

\* C13: a poll whose reply does not parse cleanly is discarded: it changes
\* no DeviceState field (stale included) and does not clear the pending map
C13_UncleanReplyDiscarded ==
    [][(op'.name = "poll" /\ op'.reconciled /\ ~op'.clean)
          => /\ model'.device_state = model.device_state
             /\ model'.pending_state = model.pending_state]_vars

\* C14: after a poll of the first end-to-end reply channel 1 has frequency
\* 540000, is disabled and the state is not stale; after a poll of the second
\* (watchdog_triggered=1) the watchdog is TRIGGERED and the broadcast IDLE,
\* and a start request that follows writes nothing to the socket
C14_EndToEnd ==
    [][/\ (op'.name = "poll" /\ op'.e2e = 1)
          => /\ model'.device_state.channels[1].frequency = 540000
             /\ ~model'.device_state.channels[1].enabled
             /\ ~model'.device_state.stale
       /\ (op'.name = "poll" /\ op'.e2e = 2)
          => /\ model'.watchdog_state = "TRIGGERED"
             /\ model'.broadcast_state = "IDLE"
       /\ (op.name = "poll" /\ op.e2e = 2 /\ StartRequested(op'))
          => sent' = <<>>]_vars


\* C15: after a reconciled poll the client's DeviceState equals the server's
\* values: the broadcasting flag, the source, and every channel's enabled
\* flag and frequency; and the reply carries the watchdog fields
\* watchdog_triggered, watchdog_warning and watchdog_time
ServerBroadcasting(d) == BitSet(d.ctrl_shadow, CTRL_MASTER_EN)
ServerSource(d) == IF BitSet(d.ctrl_shadow, CTRL_SOURCE) THEN "ADC" ELSE "BRAM"
ServerEnabled(d, ch) == BitSet(d.ch_enable_shadow, ch - 1)

Mirrors(ds, d) ==
    /\ ds.broadcasting = ServerBroadcasting(d)
    /\ ds.source = <<ServerSource(d)>>
    /\ \A ch \in ChannelIds :
          /\ ds.channels[ch].enabled = ServerEnabled(d, ch)
          /\ ds.channels[ch].frequency = d.ch_freqs[ch]

CarriesKey(status, key) ==
    \E i \in DOMAIN status :
        /\ i < Len(status) /\ status[i] = key /\ status[i + 1] = "="

C15_StatusRoundTrip ==
    (op.name = "poll" /\ op.reconciled)
        => /\ Mirrors(model.device_state, device)
           /\ \A key \in {"watchdog_triggered", "watchdog_warning",
                          "watchdog_time"} : CarriesKey(device.response, key)

\* C16: a reconciled poll publishes BROADCAST_STARTED exactly when the
\* broadcasting flag of DeviceState goes from false to true and
\* BROADCAST_STOPPED exactly when it goes from true to false; it publishes
\* WATCHDOG_TRIGGERED / WATCHDOG_WARNING exactly when the respective flag goes
\* from false to true, and not again while the flag is unchanged
Rises(flag) == ~model.device_state[flag] /\ model'.device_state[flag]
Falls(flag) == model.device_state[flag] /\ ~model'.device_state[flag]

C16_EventsOnEdges ==
    [][(op'.name = "poll" /\ op'.reconciled)
          => /\ ("BROADCAST_STARTED" \in EventTypes(published'))
                    <=> Rises("broadcasting")
             /\ ("BROADCAST_STOPPED" \in EventTypes(published'))
                    <=> Falls("broadcasting")
             /\ ("WATCHDOG_TRIGGERED" \in EventTypes(published'))
                    <=> Rises("watchdog_triggered")
             /\ ("WATCHDOG_WARNING" \in EventTypes(published'))
                    <=> Rises("watchdog_warning")]_vars

\* C17: a request with an invalid argument (a frequency outside
\* FREQ_MIN..FREQ_MAX, a channel that is not configured, an unknown message
\* id), made through the dispatcher or through update_channel, writes nothing
\* to the socket, records no pending entry, publishes no event and leaves
\* DeviceState unchanged
C17_InvalidRejectedBeforeIo ==
    [][op'.rejected
          => /\ sent' = <<>>
             /\ published' = <<>>
             /\ model'.pending_state = model.pending_state
             /\ model'.device_state = model.device_state]_vars

\* C18: set_channel_enabled(c, e) issued a second time in a row leaves the
\* confirmed state the next reconciled poll yields (the client's DeviceState
\* and the server's channel-enable mask) as the first call left it
ConfirmedAfterPoll(m, n, d) ==
    <<Polled([model |-> m, network |-> n, sent |-> <<>>, published |-> <<>>],
             d).model.device_state,
      Deliver(d, <<WATCHDOG_RESET, QUERY_STATUS>>).ch_enable_shadow,
      Deliver(d, <<WATCHDOG_RESET, QUERY_STATUS>>).reg_ch_enable>>

C18_EnableTwiceAsOnce ==
    [][(op'.name = "set_channel_enabled" /\ op'.again)
          => ConfirmedAfterPoll(model', network', device')
                 = ConfirmedAfterPoll(model, network, device)]_vars

C18_Witness ==
    /\ op.name = "set_channel_enabled" /\ op.again /\ op.active
    /\ ServerEnabled(device, op.ch)
    /\ sent = <<SET_OUTPUT(op.ch, "ON")>>

\* floor(f * 2^32 / 125,000,000) = floor(f * 2^26 / 1,953,125), evaluated in
\* chunks of Chunk so that no product leaves the integers of the checker:
\* f = fh * Chunk + fl, and x * 2^26 = SmallQuot(x) * Reduced + SmallRem(x)
\* for 0 <= x <= Chunk
Reduced == FPGA_CLK_HZ \div (2 ^ 6)
Chunk == 2000
SmallQuot(x) ==
    x * ((2 ^ 26) \div Reduced) + (x * ((2 ^ 26) % Reduced)) \div Reduced
SmallRem(x) == (x * ((2 ^ 26) % Reduced)) % Reduced

PhaseFloor(f) ==
    (f \div Chunk) * SmallQuot(Chunk)
    + ((f \div Chunk) * SmallRem(Chunk)) \div Reduced
    + SmallQuot(f % Chunk)
    + ((((f \div Chunk) * SmallRem(Chunk)) % Reduced) + SmallRem(f % Chunk))
          \div Reduced

\* C19: for every supported frequency f, freq_to_phase_inc(f) is
\* floor(f * 2^32 / 125,000,000), truncated and not rounded; it lies in
\* 0..2^32-1, is 0 for f = 0, and is the value the frequency command writes
\* to the channel's frequency register
C19_PhaseIncrementIsFloor ==
    \A ch \in ChannelIds :
        /\ device.reg_ch_freq[ch] = freq_to_phase_inc(device.ch_freqs[ch])
        /\ device.reg_ch_freq[ch] = PhaseFloor(device.ch_freqs[ch])
        /\ device.reg_ch_freq[ch] >= 0
        /\ device.reg_ch_freq[ch] \div (2 ^ 16) < 2 ^ 16
        /\ device.ch_freqs[ch] = 0 => device.reg_ch_freq[ch] = 0

\* a frequency whose exact quotient has a fraction above one half has been
\* written (900,000 Hz: 30,923,764.53)
C19_Witness ==
    /\ op.name = "process_command" /\ op.ch = 1
    /\ device.ch_freqs[1] = 900000
    /\ device.reg_ch_freq[1] = 30923764

\* C20: the phase increment written for 700,000 Hz is 24,051,816
C20_PhaseOf700kHz ==
    \A ch \in ChannelIds :
        device.ch_freqs[ch] = 700000 => device.reg_ch_freq[ch] = 24051816

\* C20 as stated: the phase increment for 700,000 Hz is 24,050,693
C20_AsStated ==
    \A ch \in ChannelIds :
        device.ch_freqs[ch] = 700000 => device.reg_ch_freq[ch] = 24050693

C20_Witness ==
    /\ op.name = "process_command" /\ op.ch = 1
    /\ device.ch_freqs[1] = 700000
    /\ device.response = <<"OK">>

\* C21: at most one audio loader is alive at any time, and a load request
\* that arrives while a loader started earlier has not finished starts no
\* loader
C21_OneLoader ==
    /\ device.starting + device.running <= 1
    /\ (op.name = "process_command" /\ op.active) => device.starting = 0

\* C22: a failed audio load (file missing, loader exit code nonzero, timeout)
\* shows in a later status query: the replies to STATUS? and AUDIO:STATUS?
\* after the failure differ from those after a successful load of the same
\* message
StatusAnswers(d) == <<get_status(d), audio_status(d)>>

\* the device after message msg_id, its file present, was loaded successfully
LoadedOk(d, msg_id) ==
    [loader_exits(
         loader_begins(
             select_message([d EXCEPT !.disk = @ \cup {d.audio_files[msg_id]}],
                            msg_id)),
         "ok")
        EXCEPT !.disk = d.disk]

C22_LoadFailureObservable ==
    [][/\ (op'.name = "loader_exit" /\ op'.outcome # "ok")
             => StatusAnswers(device')
                    # StatusAnswers(loader_exits(device, "ok"))
       /\ (op'.name = "process_command" /\ op'.outcome = "missing"
           /\ ~LoaderAlive(device))
             => StatusAnswers(device')
                    # StatusAnswers(LoadedOk(device, device'.current_msg))]_vars

\* C23: when publish(e) returns, it has called every handler that was
\* subscribed to e.type when it took its copy of the subscribers, each once
\* and in subscription order, and no other handler; a handler that raises
\* does not keep the remaining ones from being called
C23_PublishCallsAll ==
    [][\A t \in Publishers :
          (op'.name = "publish_return" /\ op'.thread = <<"bus", t>>)
              => bus.pub[t].calls = bus.pub[t].at_call]_vars

\* a publish whose first handler raised has gone on to the second
C23_Witness ==
    \E t \in Publishers :
        /\ bus.pub[t].pc = "notify" /\ bus.pub[t].todo = <<>>
        /\ bus.pub[t].calls = <<"h2", "h1">>

\* C24: the event log never holds more than the maximum once the publish that
\* appended has trimmed it, and when no publish is under way it holds the
\* most recently published events in publish order
Publishing(p) == p.pc \in {"check", "assign"}

C24_LogHoldsMostRecent ==
    (\A t \in Publishers : ~Publishing(bus.pub[t]))
        => bus.event_log = LastOf(bus.order, MaxLog)

\* C25: at most one thread is inside a send_command exchange, and no thread
\* is inside an exchange on a socket that disconnect() or the failure
\* handling closed or replaced meanwhile
C25_ExchangeExclusive ==
    /\ Cardinality({t \in ThreadIds : threads[t] \in InExchange}) <= 1
    /\ \A t \in ThreadIds : threads[t] # "cut"

\* what one call of send_command by thread t left alone
LeftAlone ==
    /\ network'.connection_state = network.connection_state
    /\ model'.connection_state = model.connection_state
    /\ model'.device_state = model.device_state
    /\ model'.broadcast_state = model.broadcast_state

\* the call returned None: the heartbeat goes to its timeout check, the poll
\* loop reconciles nothing
ReturnedNone ==
    /\ threads'[op'.thread] = Unwritten(op'.thread)
    /\ "DEVICE_STATE_UPDATED" \notin EventTypes(published')
    /\ "DEVICE_HEARTBEAT" \notin EventTypes(published')

\* C26: send_command returns None on a timeout (publishing COMMAND_TIMEOUT),
\* on any other socket error (publishing COMMAND_FAILED) and when not
\* connected (writing nothing), and leaves connection_state and DeviceState
\* as they were in all three cases
C26_SendCommandFailsQuietly ==
    [][/\ (op'.name \in {"sendall", "recv"} /\ op'.outcome = "timeout") =>
              /\ published' = <<Ev("COMMAND_TIMEOUT")>>
              /\ ReturnedNone /\ LeftAlone
       /\ (op'.name \in {"sendall", "recv"} /\ op'.outcome = "error") =>
              /\ published' = <<Ev("COMMAND_FAILED")>>
              /\ ReturnedNone /\ LeftAlone
       /\ (op'.name = "sendall" /\ op'.outcome = "guard") =>
              /\ published' = <<>> /\ sent' = <<>>
              /\ ReturnedNone /\ LeftAlone
       /\ (op'.name = "sendall" /\ op'.outcome # "ok") => sent' = <<>>]_vars

\* a recv of the heartbeat that timed out while connected
C26_Witness ==
    /\ op.name = "recv" /\ op.outcome = "timeout" /\ op.clean
    /\ op.thread[1] = "hb"
    /\ network.connection_state = "CONNECTED"
    /\ published = <<Ev("COMMAND_TIMEOUT")>>

\* C27: on a connection the server has sent as many reply lines as it has
\* received lines holding a "?", one line each and none for other lines, and
\* the client is in recv only for a query it wrote
C27_OneReplyPerQuery ==
    /\ device.replies = device.queries
    /\ op.name = "run_server" => Len(device.outbox) >= op.e2e
    /\ threads[Ui] = "recv" => QueryCount(sent) + Len(device.outbox) >= 1

\* the server received a chunk of two lines, one of them a query, and
\* answered once
C27_Witness ==
    /\ op.name = "run_server" /\ op.e2e = 1
    /\ device.response = <<"OK">>
    /\ device.queries = 1 /\ Len(device.outbox) = 1

\* C28: while DISCONNECTED after disconnect(), with no later connection,
\* DeviceState.stale is true and broadcast_state is not BROADCASTING
C28_StaleWhileDisconnected ==
    (hist.down /\ network.connection_state = "DISCONNECTED") =>
        /\ model.device_state.stale
        /\ model.broadcast_state # "BROADCASTING"

\* thread t is a poll or heartbeat thread that was started and has not ended
LoopAlive(t) ==
    t[1] \in {"hb", "poll"} /\ threads[t] \notin {"idle", "done"}

\* C29: when disconnect() has returned, no poll loop and no heartbeat loop
\* is still running
C29_DisconnectJoinsThreads ==
    op.name = "disconnect" => \A t \in ThreadIds : ~LoopAlive(t)

\* the heartbeat threads inside an iteration of their loop
HeartbeatsActive == {t \in ThreadIds : t[1] = "hb" /\ threads[t] = "send"}

\* the poll threads whose next test of the loop condition succeeds
PollsActive ==
    IF LoopCondition(network)
    THEN {t \in ThreadIds : t[1] = "poll" /\ threads[t] = "loop"}
    ELSE {}

\* C30: at most one heartbeat loop and at most one status-poll loop is
\* active at any time
C30_OneLoopOfEachKind ==
    /\ Cardinality(HeartbeatsActive) <= 1
    /\ Cardinality(PollsActive) <= 1

\* the bits of the control register and of the channel-enable mask
CtrlBits == 0..7
MaskBits == 0..11

\* the registers v and w agree on every bit of all that is not in own
AgreeOutside(v, w, all, own) ==
    \A b \in all \ own : BitSet(v, b) = BitSet(w, b)

\* the step changed, of the control register, only the bits own
CtrlOnly(own) ==
    /\ AgreeOutside(device'.reg_ctrl, device.reg_ctrl, CtrlBits, own)
    /\ device'.reg_ch_enable = device.reg_ch_enable
    /\ device'.reg_ch_freq = device.reg_ch_freq

\* C31: every register-writing command changes only its own field of the
\* register file, and a command naming a channel outside 1..12 changes
\* nothing and is answered ERROR
C31_CommandsWriteOwnField ==
    [][op'.name = "process_command" =>
         /\ op'.via = "OUTPUT:STATE" => CtrlOnly({CTRL_MASTER_EN})
         /\ op'.via = "SOURCE:INPUT" => CtrlOnly({CTRL_SOURCE})
         /\ op'.via = "SOURCE:MSG" => CtrlOnly(4..7)
         /\ (op'.via = "CH:OUTPUT" /\ op'.ch \in 1..12) =>
                /\ AgreeOutside(device'.reg_ch_enable, device.reg_ch_enable,
                                MaskBits, {op'.ch - 1})
                /\ device'.reg_ctrl = device.reg_ctrl
                /\ device'.reg_ch_freq = device.reg_ch_freq
         /\ (op'.via = "FREQ:CH" /\ op'.ch \in 1..12) =>
                /\ \A ch \in ChannelIds \ {op'.ch} :
                       device'.reg_ch_freq[ch] = device.reg_ch_freq[ch]
                /\ device'.reg_ctrl = device.reg_ctrl
                /\ device'.reg_ch_enable = device.reg_ch_enable
         /\ op'.ch \notin 0..12 =>
                /\ CtrlOnly({})
                /\ device'.response = <<"ERROR">>]_vars

\* the step published that a write or a read failed
CommandFailed ==
    EventTypes(published') \cap {"COMMAND_TIMEOUT", "COMMAND_FAILED"} # {}

\* C32: Model.disconnect with the confirmed state broadcasting writes
\* OUTPUT:STATE OFF to the connection that is still open, then closes the
\* socket, and ends with broadcast_state IDLE and connection_state
\* DISCONNECTED
C32_DisconnectStopsBroadcastFirst ==
    [][(op'.name = "disconnect" /\ model.device_state.broadcasting) =>
          /\ (SendGuard(network) /\ ~CommandFailed) =>
                 sent' = <<SET_BROADCAST("OFF")>>
          /\ network'.socket = "None"
          /\ model'.broadcast_state = "IDLE"
          /\ model'.connection_state = "DISCONNECTED"
          /\ network'.connection_state = "DISCONNECTED"]_vars

\* a disconnect that stopped the broadcast on its way
C32_Witness ==
    /\ op.name = "disconnect"
    /\ sent = <<SET_BROADCAST("OFF")>>
    /\ model.device_state.broadcasting
    /\ network.socket = "None"
    /\ model.broadcast_state = "IDLE"

\* C33: a dispatcher call records its pending entry before it sends, every
\* reconciled poll empties the pending map, and a poll that was in flight
\* when the call was made (its STATUS? written before the command of the
\* entry) leaves the entry in place
C33_PendingClearedByLaterPoll ==
    [][/\ op'.name = "set_source" =>
              /\ "source" \in DOMAIN model'.pending_state
              /\ sent' = <<>>
       /\ "DEVICE_STATE_UPDATED" \in EventTypes(published') =>
              model'.pending_state = NoPending
       /\ (op'.name = "recv" /\ threads[Ui] \in Sources) =>
              model'.pending_state = model.pending_state]_vars

\* C34: what send_command returns for a query is the reply the device
\* produced for that query, and nothing else
C34_ReplyAnswersItsQuery ==
    (op.name = "recv" /\ op.ok /\ op.thread = Ui) => op.clean

\* C35: the control register holds the value of ctrl_shadow; the refresh
\* thread of the server never puts an older value back
C35_RegisterFollowsShadow == device.reg_ctrl = device.ctrl_shadow

\* no thread is between an assignment of connection_state and the return of
\* the publish that follows it
NoPublishInProgress ==
    \A t \in ThreadIds : threads[t] \notin PendingEvents \cup {"retry"}

\* C36: whenever no publish is in progress the connection state of the
\* Model is that of the NetworkManager
C36_ModelMirrorsConnectionState ==
    NoPublishInProgress => model.connection_state = network.connection_state

\* the attempt numbers of the RECONNECT_ATTEMPT events of a log
AttemptNumbers(evs) ==
    {evs[i].attempt : i \in {j \in DOMAIN evs : evs[j].type = "RECONNECT_ATTEMPT"}}

\* C37: _reconnect_count stays within 0..MAX_RECONNECT_ATTEMPTS, and the
\* n-th RECONNECT_ATTEMPT event since the last successful dial carries the
\* attempt number n
C37_AttemptsCountedInOrder ==
    [][/\ network'.reconnect_count \in 0..MAX_RECONNECT_ATTEMPTS
       /\ op'.name = "publish" =>
              AttemptNumbers(published') \subseteq {hist.attempts + 1}]_vars

\* broadcast_state is one of the two intermediate states
Transitional == model.broadcast_state \in {"ARMING", "STOPPING"}

\* C38: with the polls being reconciled, an intermediate broadcast_state
\* (ARMING, STOPPING) does not last: once a poll has been reconciled and
\* further polls change nothing any more, broadcast_state is BROADCASTING,
\* IDLE or ERROR
C38_BroadcastStateSettles ==
    (PollReconciled /\ PollFixpoint) => ~Transitional

\* the threads that hold the lock thread t is waiting for
Blockers(t) ==
    IF threads[t] \in TransportWaiting THEN Holders(TransportHolding)
    ELSE IF threads[t] \in BusWaiting THEN Holders(BusHolding)
    ELSE {}

\* every thread of D waits for a lock held by a thread of D
Deadlocked(D) == D # {} /\ \A t \in D : Blockers(t) \cap D # {}

\* C39: no set of threads waits in a cycle for the transport lock and the
\* event-bus lock, and each lock has at most one holder
C39_NoLockCycle ==
    /\ \A D \in SUBSET LockThreads : ~Deadlocked(D)
    /\ Cardinality(Holders(TransportHolding)) <= 1
    /\ Cardinality(Holders(BusHolding)) <= 1

\* one thread publishes COMMAND_TIMEOUT holding both locks while a second
\* waits for the transport lock and a third for the bus lock
C39_Witness ==
    /\ Holders({"fail_copy"}) # {}
    /\ Holders(TransportWaiting) # {}
    /\ Holders({"pub_wait", "nested_wait"}) # {}

\* C40: a loader thread that was started eventually exits, and a set
\* audio_loading flag is eventually followed by a state where it is clear
\* and a load request for a message whose file exists is accepted
C40_AudioLoadTerminates ==
    /\ LoaderAlive(device) ~> (op.name = "loader_exit")
    /\ device.audio_loading ~>
           (~device.audio_loading /\ LoadAccepted(device, 1))

\* a load has ended by the timeout, the flag is clear and a new request
\* would be accepted
C40_Witness ==
    /\ op.name = "loader_exit" /\ op.outcome = "timeout"
    /\ ~device.audio_loading
    /\ LoadAccepted(device, 1)
====
